---- MODULE Spec2Model ----
(***************************************************************************)
(* tissuebox: the interactive session of src/src/tui.rs (the session loop  *)
(* `tui`, the action executor `input`) over the record store (TissueBox).  *)
(*                                                                         *)
(* Text is a sequence of one-character strings.  A key code is a string:   *)
(* a one-character string is KeyCode::Char(c), a longer name is the named  *)
(* key (Up, Enter, ...).                                                   *)
(***************************************************************************)
EXTENDS Integers, Sequences, FiniteSets, TLC

\* ------------------------------------------------------------------- keys
UpKeys == {"k", "h", "Up", "Left"}
DownKeys == {"j", "l", "Down", "Right"}
Chars ==
    {"k", "h", "j", "l", "H", "a", "R", "d", "t", "e", "c", "C", "P", "r",
     "*", "q", "y", "Y", "n", "N", "T", "x"}
NamedKeys == {"Up", "Left", "Down", "Right", "Enter", "Backspace", "Esc", "Tab"}
Keys == Chars \cup NamedKeys

\* ------------------------------------------------------------------ values
None == <<>>
Some(v) == <<v>>

Min(a, b) == IF a <= b THEN a ELSE b
\* usize::saturating_sub(a, 1)
SatDec(a) == IF a = 0 THEN 0 ELSE a - 1

\* Tissue { title, ..Default::default() }
NewTissue(title) == [title |-> title, description |-> <<>>, tags |-> {}]

\* Vec::pop in place of Vec::remove(k): the last element leaves.
RemoveLast(s, k) == SubSeq(s, 1, Len(s) - 1)

\* Vec::remove(k): the element at k (0-based) leaves, the later ones shift down.
RemoveAt(s, k) == [j \in 1..(Len(s) - 1) |-> IF j <= k THEN s[j] ELSE s[j + 1]]

\* The item at the 0-based position k of a Vec.
At(s, k) == s[k + 1]

\* A Vec with the item at the 0-based position k replaced.
SetAt(s, k, v) == [s EXCEPT ![k + 1] = v]

\* Tissue::describe inserting at the head of the list.
describe_at_head(tissue, description) ==
    [tissue EXCEPT !.description = <<description>> \o @]
\* Tissue::describe
describe(tissue, description) ==
    [tissue EXCEPT !.description = Append(@, description)]

\* Tissue::tag
tag(tissue, t) == [tissue EXCEPT !.tags = @ \cup {t}]

\* TissueBox::create
create(box, title) == [box EXCEPT !.tissues = Append(@, NewTissue(title))]

\* TissueBox::remove: out of range it does nothing; otherwise the item moves
\* to the tail of the recycle bin and a star on it is cleared.
remove(box, k) ==
    IF k >= Len(box.tissues) THEN box
    ELSE [tissues |-> RemoveAt(box.tissues, k),
          recycle_bin |-> Append(box.recycle_bin, At(box.tissues, k)),
          starred |-> IF box.starred = Some(k) THEN None ELSE box.starred]

\* TissueBox::restore: the recycle-bin entry i moves to the tail of the live
\* sequence.
restore(box, i) ==
    [box EXCEPT !.tissues = Append(@, At(box.recycle_bin, i)),
                !.recycle_bin = RemoveAt(@, i)]

\* ------------------------------------------------------------------- modes
Mode(kind) == [kind |-> kind, text |-> <<>>, i |-> 0]
TextMode(kind, text) == [kind |-> kind, text |-> text, i |-> 0]
WalkMode(kind, i) == [kind |-> kind, text |-> <<>>, i |-> i]
Normal == Mode("Normal")
TextKinds == {"Add", "Describe", "Tag", "Edit", "RemoveTag"}

\* gather_line: the buffer after the key, and whether the line is complete.
\* gather_line without the pop() of Backspace.
gather_line_no_pop(line, code) ==
    IF code = "Enter" THEN [line |-> line, done |-> TRUE]
    ELSE IF code \in Chars THEN [line |-> Append(line, code), done |-> FALSE]
    ELSE [line |-> line, done |-> FALSE]

gather_line(line, code) ==
    IF code = "Backspace" THEN [line |-> SubSeq(line, 1, Len(line) - 1), done |-> FALSE]
    ELSE IF code = "Enter" THEN [line |-> line, done |-> TRUE]
    ELSE IF code \in Chars THEN [line |-> Append(line, code), done |-> FALSE]
    ELSE [line |-> line, done |-> FALSE]

\* ------------------------------------------------------------ input results
\* InputResult::Mode / Copy / Error / Changed
ResMode(m) == [kind |-> "Mode", mode |-> m, text |-> <<>>, error |-> "Ok"]
ResCopy(text) == [kind |-> "Copy", mode |-> Normal, text |-> text, error |-> "Ok"]
ResError(e) == [kind |-> "Error", mode |-> Normal, text |-> <<>>, error |-> e]
ResChanged == [kind |-> "Changed", mode |-> Normal, text |-> <<>>, error |-> "Ok"]
NoResult == [kind |-> "None", mode |-> Normal, text |-> <<>>, error |-> "Ok"]

\* What `input` returns and leaves behind: the result, the highlighted index,
\* the store, and the external helper it ran (none, commit, publish).
Out(result, index, box, helper) ==
    [result |-> result, index |-> index, box |-> box, helper |-> helper]

\* Vec<String>::join("\n")
RECURSIVE Join(_)
Join(lines) ==
    IF Len(lines) = 0 THEN <<>>
    ELSE IF Len(lines) = 1 THEN lines[1]
    ELSE lines[1] \o <<"\n">> \o Join(Tail(lines))

\* TissueBox::to_string: one entry per live item, numbered from 0.
to_string(box) ==
    [j \in 1..Len(box.tissues) |-> [index |-> j - 1, tissue |-> box.tissues[j]]]

\* ------------------------------------------------------------------- input
\* input(mode, code, index, tissue_box), one operator per arm of its match.
\* helper_ok is the outcome of the external program a gate runs.

\* InputNormal opening the Restore selector whatever the recycle bin holds.
InputNormalRestoreUnguarded(code, index, box) ==
    IF code \in UpKeys THEN Out(ResMode(Normal), SatDec(index), box, "none")
    ELSE IF code \in DownKeys THEN Out(ResMode(Normal), index + 1, box, "none")
    ELSE IF code = "H" THEN Out(ResMode(Mode("Help")), index, box, "none")
    ELSE IF code = "a" THEN Out(ResMode(TextMode("Add", <<>>)), index, box, "none")
    ELSE IF code = "R" THEN Out(ResMode(WalkMode("Restore", 0)), index, box, "none")
    ELSE IF code = "d" /\ Len(box.tissues) # 0
        THEN Out(ResMode(TextMode("Describe", <<>>)), index, box, "none")
    ELSE IF code = "t" /\ Len(box.tissues) # 0
        THEN Out(ResMode(TextMode("Tag", <<>>)), index, box, "none")
    ELSE IF code = "e" /\ Len(box.tissues) # 0
        THEN Out(ResMode(TextMode("Edit", <<>>)), index, box, "none")
    ELSE IF code = "c" /\ Len(box.tissues) # 0
        THEN Out(ResMode(Mode("Copy")), index, box, "none")
    ELSE IF code = "C" /\ Len(box.tissues) # 0
        THEN Out(ResMode(Mode("Commit")), index, box, "none")
    ELSE IF code = "P" /\ Len(box.tissues) # 0
        THEN Out(ResMode(Mode("Publish")), index, box, "none")
    ELSE IF code = "r" /\ Len(box.tissues) # 0
        THEN Out(ResMode(Mode("Remove")), index, box, "none")
    ELSE IF code = "*" /\ Len(box.tissues) # 0 THEN
        IF box.starred # None THEN
            IF box.starred = Some(index)
            THEN Out(ResChanged, index, [box EXCEPT !.starred = None], "none")
            ELSE Out(ResChanged, box.starred[1], box, "none")
        ELSE Out(ResChanged, index, [box EXCEPT !.starred = Some(index)], "none")
    ELSE Out(ResMode(Normal), index, box, "none")

\* InputNormal moving the star to the highlighted item when another item is
\* starred.
InputNormalStarMoves(code, index, box) ==
    IF code \in UpKeys THEN Out(ResMode(Normal), SatDec(index), box, "none")
    ELSE IF code \in DownKeys THEN Out(ResMode(Normal), index + 1, box, "none")
    ELSE IF code = "H" THEN Out(ResMode(Mode("Help")), index, box, "none")
    ELSE IF code = "a" THEN Out(ResMode(TextMode("Add", <<>>)), index, box, "none")
    ELSE IF code = "R" THEN
        IF Len(box.recycle_bin) = 0
        THEN Out(ResMode(Normal), index, box, "none")
        ELSE Out(ResMode(WalkMode("Restore", 0)), index, box, "none")
    ELSE IF code = "d" /\ Len(box.tissues) # 0
        THEN Out(ResMode(TextMode("Describe", <<>>)), index, box, "none")
    ELSE IF code = "t" /\ Len(box.tissues) # 0
        THEN Out(ResMode(TextMode("Tag", <<>>)), index, box, "none")
    ELSE IF code = "e" /\ Len(box.tissues) # 0
        THEN Out(ResMode(TextMode("Edit", <<>>)), index, box, "none")
    ELSE IF code = "c" /\ Len(box.tissues) # 0
        THEN Out(ResMode(Mode("Copy")), index, box, "none")
    ELSE IF code = "C" /\ Len(box.tissues) # 0
        THEN Out(ResMode(Mode("Commit")), index, box, "none")
    ELSE IF code = "P" /\ Len(box.tissues) # 0
        THEN Out(ResMode(Mode("Publish")), index, box, "none")
    ELSE IF code = "r" /\ Len(box.tissues) # 0
        THEN Out(ResMode(Mode("Remove")), index, box, "none")
    ELSE IF code = "*" /\ Len(box.tissues) # 0 THEN
        IF box.starred # None THEN
            IF box.starred = Some(index)
            THEN Out(ResChanged, index, [box EXCEPT !.starred = None], "none")
            ELSE Out(ResChanged, index, [box EXCEPT !.starred = Some(index)], "none")
        ELSE Out(ResChanged, index, [box EXCEPT !.starred = Some(index)], "none")
    ELSE Out(ResMode(Normal), index, box, "none")

\* InputNormal opening the Remove sub-menu without the is_empty() guard.
InputNormalRemoveUnguarded(code, index, box) ==
    IF code \in UpKeys THEN Out(ResMode(Normal), SatDec(index), box, "none")
    ELSE IF code \in DownKeys THEN Out(ResMode(Normal), index + 1, box, "none")
    ELSE IF code = "H" THEN Out(ResMode(Mode("Help")), index, box, "none")
    ELSE IF code = "a" THEN Out(ResMode(TextMode("Add", <<>>)), index, box, "none")
    ELSE IF code = "R" THEN
        IF Len(box.recycle_bin) = 0
        THEN Out(ResMode(Normal), index, box, "none")
        ELSE Out(ResMode(WalkMode("Restore", 0)), index, box, "none")
    ELSE IF code = "d" /\ Len(box.tissues) # 0
        THEN Out(ResMode(TextMode("Describe", <<>>)), index, box, "none")
    ELSE IF code = "t" /\ Len(box.tissues) # 0
        THEN Out(ResMode(TextMode("Tag", <<>>)), index, box, "none")
    ELSE IF code = "e" /\ Len(box.tissues) # 0
        THEN Out(ResMode(TextMode("Edit", <<>>)), index, box, "none")
    ELSE IF code = "c" /\ Len(box.tissues) # 0
        THEN Out(ResMode(Mode("Copy")), index, box, "none")
    ELSE IF code = "C" /\ Len(box.tissues) # 0
        THEN Out(ResMode(Mode("Commit")), index, box, "none")
    ELSE IF code = "P" /\ Len(box.tissues) # 0
        THEN Out(ResMode(Mode("Publish")), index, box, "none")
    ELSE IF code = "r"
        THEN Out(ResMode(Mode("Remove")), index, box, "none")
    ELSE IF code = "*" /\ Len(box.tissues) # 0 THEN
        IF box.starred # None THEN
            IF box.starred = Some(index)
            THEN Out(ResChanged, index, [box EXCEPT !.starred = None], "none")
            ELSE Out(ResChanged, box.starred[1], box, "none")
        ELSE Out(ResChanged, index, [box EXCEPT !.starred = Some(index)], "none")
    ELSE Out(ResMode(Normal), index, box, "none")

InputNormal(code, index, box) ==
    IF code \in UpKeys THEN Out(ResMode(Normal), SatDec(index), box, "none")
    ELSE IF code \in DownKeys THEN Out(ResMode(Normal), index + 1, box, "none")
    ELSE IF code = "H" THEN Out(ResMode(Mode("Help")), index, box, "none")
    ELSE IF code = "a" THEN Out(ResMode(TextMode("Add", <<>>)), index, box, "none")
    ELSE IF code = "R" THEN
        IF Len(box.recycle_bin) = 0
        THEN Out(ResMode(Normal), index, box, "none")
        ELSE Out(ResMode(WalkMode("Restore", 0)), index, box, "none")
    ELSE IF code = "d" /\ Len(box.tissues) # 0
        THEN Out(ResMode(TextMode("Describe", <<>>)), index, box, "none")
    ELSE IF code = "t" /\ Len(box.tissues) # 0
        THEN Out(ResMode(TextMode("Tag", <<>>)), index, box, "none")
    ELSE IF code = "e" /\ Len(box.tissues) # 0
        THEN Out(ResMode(TextMode("Edit", <<>>)), index, box, "none")
    ELSE IF code = "c" /\ Len(box.tissues) # 0
        THEN Out(ResMode(Mode("Copy")), index, box, "none")
    ELSE IF code = "C" /\ Len(box.tissues) # 0
        THEN Out(ResMode(Mode("Commit")), index, box, "none")
    ELSE IF code = "P" /\ Len(box.tissues) # 0
        THEN Out(ResMode(Mode("Publish")), index, box, "none")
    ELSE IF code = "r" /\ Len(box.tissues) # 0
        THEN Out(ResMode(Mode("Remove")), index, box, "none")
    ELSE IF code = "*" /\ Len(box.tissues) # 0 THEN
        IF box.starred # None THEN
            IF box.starred = Some(index)
            THEN Out(ResChanged, index, [box EXCEPT !.starred = None], "none")
            ELSE Out(ResChanged, box.starred[1], box, "none")
        ELSE Out(ResChanged, index, [box EXCEPT !.starred = Some(index)], "none")
    ELSE Out(ResMode(Normal), index, box, "none")

InputHelp(m, code, index, box) ==
    IF code \in Chars THEN Out(ResMode(Normal), index, box, "none")
    ELSE Out(ResMode(m), index, box, "none")

InputAdd(m, code, index, box) ==
    LET g == gather_line(m.text, code) IN
    IF g.done THEN Out(ResChanged, index, create(box, g.line), "none")
    ELSE Out(ResMode(TextMode("Add", g.line)), index, box, "none")

InputDescribe(m, code, index, box) ==
    LET g == gather_line(m.text, code) IN
    IF g.done
    THEN Out(ResChanged, index,
             [box EXCEPT !.tissues = SetAt(@, index, describe(At(@, index), g.line))],
             "none")
    ELSE Out(ResMode(TextMode("Describe", g.line)), index, box, "none")

\* InputTag returning a plain mode change after it tagged the item.
InputTagNoPersist(m, code, index, box) ==
    LET g == gather_line(m.text, code) IN
    IF g.done
    THEN Out(ResMode(Normal), index,
             [box EXCEPT !.tissues = SetAt(@, index, tag(At(@, index), g.line))],
             "none")
    ELSE Out(ResMode(TextMode("Tag", g.line)), index, box, "none")

InputTag(m, code, index, box) ==
    LET g == gather_line(m.text, code) IN
    IF g.done
    THEN Out(ResChanged, index,
             [box EXCEPT !.tissues = SetAt(@, index, tag(At(@, index), g.line))],
             "none")
    ELSE Out(ResMode(TextMode("Tag", g.line)), index, box, "none")

InputEdit(m, code, index, box) ==
    LET g == gather_line(m.text, code) IN
    IF g.done
    THEN Out(ResChanged, index,
             [box EXCEPT !.tissues = SetAt(@, index, [At(@, index) EXCEPT !.title = g.line])],
             "none")
    ELSE Out(ResMode(TextMode("Edit", g.line)), index, box, "none")

InputCopy(code, index, box) ==
    IF code = "t"
        THEN Out(ResCopy([what |-> "title", text |-> At(box.tissues, index).title]),
                 index, box, "none")
    ELSE IF code = "d"
        THEN Out(ResCopy([what |-> "description",
                          text |-> Join(At(box.tissues, index).description)]),
                 index, box, "none")
    ELSE IF code = "l"
        THEN Out(ResCopy([what |-> "list", text |-> to_string(box)]), index, box, "none")
    ELSE Out(ResMode(Mode("Copy")), index, box, "none")

\* The gate deleting the item with tissues.remove(index), past the recycle bin.
InputGateDropsItem(kind, helper, code, index, box, helper_ok) ==
    IF code \in {"y", "Y"} THEN
        IF helper_ok
        THEN Out(ResChanged, index, [box EXCEPT !.tissues = RemoveAt(@, index)], helper)
        ELSE Out(ResError("HelperFailed"), index, box, helper)
    ELSE IF code \in {"n", "N"} THEN Out(ResMode(Normal), index, box, "none")
    ELSE Out(ResMode(Mode(kind)), index, box, "none")

\* The gate taking Enter as the affirmative answer too.
InputGateEnterConfirms(kind, helper, code, index, box, helper_ok) ==
    IF code \in {"y", "Y", "Enter"} THEN
        IF helper_ok
        THEN Out(ResChanged, index, remove(box, index), helper)
        ELSE Out(ResError("HelperFailed"), index, box, helper)
    ELSE IF code \in {"n", "N"} THEN Out(ResMode(Normal), index, box, "none")
    ELSE Out(ResMode(Mode(kind)), index, box, "none")

\* Mode::Publish and Mode::Commit: the same gate around Tissue::publish and
\* Tissue::commit.
InputGate(kind, helper, code, index, box, helper_ok) ==
    IF code \in {"y", "Y"} THEN
        IF helper_ok
        THEN Out(ResChanged, index, remove(box, index), helper)
        ELSE Out(ResError("HelperFailed"), index, box, helper)
    ELSE IF code \in {"n", "N"} THEN Out(ResMode(Normal), index, box, "none")
    ELSE Out(ResMode(Mode(kind)), index, box, "none")

\* InputRemove deleting the item from the live sequence directly, as
\* tissues.remove(index) would, past the recycle bin.
InputRemoveDropsItem(code, index, box) ==
    IF code = "T"
        THEN Out(ResChanged, index, [box EXCEPT !.tissues = RemoveAt(@, index)], "none")
    ELSE IF code = "d" THEN
        IF Len(At(box.tissues, index).description) = 0
        THEN Out(ResMode(Normal), index, box, "none")
        ELSE Out(ResMode(WalkMode("RemoveDescription", 0)), index, box, "none")
    ELSE IF code = "t" THEN Out(ResMode(TextMode("RemoveTag", <<>>)), index, box, "none")
    ELSE Out(ResMode(Mode("Remove")), index, box, "none")

\* InputRemove opening the description selector without the is_empty() test.
InputRemoveDescribeUnguarded(code, index, box) ==
    IF code = "T" THEN Out(ResChanged, index, remove(box, index), "none")
    ELSE IF code = "d"
        THEN Out(ResMode(WalkMode("RemoveDescription", 0)), index, box, "none")
    ELSE IF code = "t" THEN Out(ResMode(TextMode("RemoveTag", <<>>)), index, box, "none")
    ELSE Out(ResMode(Mode("Remove")), index, box, "none")

InputRemove(code, index, box) ==
    IF code = "T" THEN Out(ResChanged, index, remove(box, index), "none")
    ELSE IF code = "d" THEN
        IF Len(At(box.tissues, index).description) = 0
        THEN Out(ResMode(Normal), index, box, "none")
        ELSE Out(ResMode(WalkMode("RemoveDescription", 0)), index, box, "none")
    ELSE IF code = "t" THEN Out(ResMode(TextMode("RemoveTag", <<>>)), index, box, "none")
    ELSE Out(ResMode(Mode("Remove")), index, box, "none")

\* InputRemoveDescription returning to Normal without Changed after the
\* removal.
InputRemoveDescriptionNoPersist(m, code, index, box) ==
    LET tissue == At(box.tissues, index) IN
    IF code \in UpKeys
        THEN Out(ResMode(WalkMode("RemoveDescription", SatDec(m.i))), index, box, "none")
    ELSE IF code \in DownKeys
        THEN Out(ResMode(WalkMode("RemoveDescription",
                                  Min(m.i + 1, Len(tissue.description) - 1))),
                 index, box, "none")
    ELSE IF code = "Enter"
        THEN Out(ResMode(Normal), index,
                 [box EXCEPT !.tissues =
                     SetAt(@, index, [tissue EXCEPT !.description = RemoveAt(@, m.i)])],
                 "none")
    ELSE Out(ResMode(WalkMode("RemoveDescription", m.i)), index, box, "none")

\* InputRemoveDescription moving the highlighted index along with the walked
\* one.
InputRemoveDescriptionMovesHighlight(m, code, index, box) ==
    LET tissue == At(box.tissues, index) IN
    IF code \in UpKeys
        THEN Out(ResMode(WalkMode("RemoveDescription", SatDec(m.i))), SatDec(index), box,
                 "none")
    ELSE IF code \in DownKeys
        THEN Out(ResMode(WalkMode("RemoveDescription",
                                  Min(m.i + 1, Len(tissue.description) - 1))),
                 index, box, "none")
    ELSE IF code = "Enter"
        THEN Out(ResChanged, index,
                 [box EXCEPT !.tissues =
                     SetAt(@, index, [tissue EXCEPT !.description = RemoveAt(@, m.i)])],
                 "none")
    ELSE Out(ResMode(WalkMode("RemoveDescription", m.i)), index, box, "none")

InputRemoveDescription(m, code, index, box) ==
    LET tissue == At(box.tissues, index) IN
    IF code \in UpKeys
        THEN Out(ResMode(WalkMode("RemoveDescription", SatDec(m.i))), index, box, "none")
    ELSE IF code \in DownKeys
        THEN Out(ResMode(WalkMode("RemoveDescription",
                                  Min(m.i + 1, Len(tissue.description) - 1))),
                 index, box, "none")
    ELSE IF code = "Enter"
        THEN Out(ResChanged, index,
                 [box EXCEPT !.tissues =
                     SetAt(@, index, [tissue EXCEPT !.description = RemoveAt(@, m.i)])],
                 "none")
    ELSE Out(ResMode(WalkMode("RemoveDescription", m.i)), index, box, "none")

InputRemoveTag(m, code, index, box) ==
    LET g == gather_line(m.text, code) IN
    IF g.done
    THEN Out(ResChanged, index,
             [box EXCEPT !.tissues =
                 SetAt(@, index, [At(@, index) EXCEPT !.tags = @ \ {g.line}])],
             "none")
    ELSE Out(ResMode(TextMode("RemoveTag", g.line)), index, box, "none")

\* InputRestore restoring with the highlighted index of the live sequence in
\* place of the walked one (the two are both called `index` in the source).
InputRestoreOuterIndex(m, code, index, box) ==
    IF code \in UpKeys
        THEN Out(ResMode(WalkMode("Restore", SatDec(m.i))), index, box, "none")
    ELSE IF code \in DownKeys
        THEN Out(ResMode(WalkMode("Restore", Min(m.i + 1, Len(box.recycle_bin) - 1))),
                 index, box, "none")
    ELSE IF code = "Enter"
        THEN Out(ResChanged, index,
                 restore(box, Min(index, Len(box.recycle_bin) - 1)), "none")
    ELSE Out(ResMode(WalkMode("Restore", m.i)), index, box, "none")

\* InputRestore with the up keys going back to the first entry.
InputRestoreUpToTop(m, code, index, box) ==
    IF code \in UpKeys
        THEN Out(ResMode(WalkMode("Restore", 0)), index, box, "none")
    ELSE IF code \in DownKeys
        THEN Out(ResMode(WalkMode("Restore", Min(m.i + 1, Len(box.recycle_bin) - 1))),
                 index, box, "none")
    ELSE IF code = "Enter" THEN Out(ResChanged, index, restore(box, m.i), "none")
    ELSE Out(ResMode(WalkMode("Restore", m.i)), index, box, "none")

InputRestore(m, code, index, box) ==
    IF code \in UpKeys
        THEN Out(ResMode(WalkMode("Restore", SatDec(m.i))), index, box, "none")
    ELSE IF code \in DownKeys
        THEN Out(ResMode(WalkMode("Restore", Min(m.i + 1, Len(box.recycle_bin) - 1))),
                 index, box, "none")
    ELSE IF code = "Enter" THEN Out(ResChanged, index, restore(box, m.i), "none")
    ELSE Out(ResMode(WalkMode("Restore", m.i)), index, box, "none")

input(m, code, index, box, helper_ok) ==
    CASE m.kind = "Normal" -> InputNormal(code, index, box)
      [] m.kind = "Help" -> InputHelp(m, code, index, box)
      [] m.kind = "Add" -> InputAdd(m, code, index, box)
      [] m.kind = "Describe" -> InputDescribe(m, code, index, box)
      [] m.kind = "Tag" -> InputTag(m, code, index, box)
      [] m.kind = "Edit" -> InputEdit(m, code, index, box)
      [] m.kind = "Copy" -> InputCopy(code, index, box)
      [] m.kind = "Publish" -> InputGate("Publish", "publish", code, index, box, helper_ok)
      [] m.kind = "Commit" -> InputGate("Commit", "commit", code, index, box, helper_ok)
      [] m.kind = "Remove" -> InputRemove(code, index, box)
      [] m.kind = "RemoveDescription" -> InputRemoveDescription(m, code, index, box)
      [] m.kind = "RemoveTag" -> InputRemoveTag(m, code, index, box)
      [] m.kind = "Restore" -> InputRestore(m, code, index, box)

\* ------------------------------------------------------------------- state
VARIABLES
    tissue_box,        \* the in-memory store: tissues, recycle_bin, starred
    index,             \* the highlighted index of the session loop
    mode,              \* the Mode of the session loop
    last_error,        \* "Ok", or the error the next render shows
    clipboard_daemon,  \* whether run() was given a clipboard helper path
    pc,                \* "render", "read", "apply" (input has returned), "done"
    result,            \* the InputResult being matched while pc = "apply"
    disk,              \* the store the file at `path` holds
    shown_error,       \* the error line the last render drew
    dirty,             \* the store changed since the save routine was last called
    io,                \* what the last step did to the outside world
    event,             \* the key press being handled, and the mode it met
    save_failed,       \* the most recent call of the save routine failed
    exit,              \* how the session ended: "none", "quit", "error", "panic"
    children,          \* the live clipboard children, counted up to env.children
    terminal,          \* "raw" (raw mode, alternate screen) or "cooked"
    diagnostic,        \* what the process wrote to stderr, and the terminal it met
    command,           \* the arguments: NoCommand, cli.command, or the child's
    files              \* the working directory: the store file exists, .git
                       \* exists, the entries appended to .git/info/exclude

vars ==
    <<tissue_box, index, mode, last_error, clipboard_daemon, pc, result, disk,
      shown_error, dirty, io, event, save_failed, exit, children, terminal,
      diagnostic, command, files>>

\* What the session loop never touches: the terminal mode, stderr, the
\* parsed command line, the directory entries.
process == <<terminal, diagnostic, command, files>>

NoDiagnostic == [what |-> "none", terminal |-> "none"]
NoCommand == [kind |-> "None", index |-> 0]

NoEvent == [key |-> "none", mode |-> Normal]

\* A directory in which the store file exists already.
Files(store, git) == [store |-> store, git |-> git, exclude |-> 0]

EmptyBox == [tissues |-> <<>>, recycle_bin |-> <<>>, starred |-> None]

\* ------------------------------------------------------------- environments
\* What the user and the outside world do in one specification:
\*   keys    the keys pressed;  closed  the Normal-mode keys left alone;
\*   typed   the characters typed into a text capture;
\*   items, len, desc, tags   the sizes the store and a buffer stay within;
\*   helper, spawn, save      the outcomes of git/gh, of the clipboard spawn
\*                            and of TissueBox::save;
\*   children                 how many live clipboard children are counted
\*                            (0: they are not followed).
Bounded(env, box) ==
    /\ Len(box.tissues) + Len(box.recycle_bin) <= env.items
    /\ \A j \in 1..Len(box.tissues) :
        /\ Len(box.tissues[j].description) <= env.desc
        /\ Cardinality(box.tissues[j].tags) <= env.tags

Allowed(env, m, code) ==
    /\ code \in env.keys
    /\ m.kind = "Normal" => code \notin env.closed
    /\ (m.kind \in TextKinds /\ code \in Chars) => code \in env.typed

\* tui(), lines 95-105: the store is loaded and the loop starts in Normal.
InitWith(boxes, daemons) ==
    /\ tissue_box \in boxes
    /\ disk = tissue_box
    /\ index = 0
    /\ mode = Normal
    /\ last_error = "Ok"
    /\ clipboard_daemon \in daemons
    /\ pc = "render"
    /\ result = NoResult
    /\ shown_error = "Ok"
    /\ dirty = FALSE
    /\ io = "none"
    /\ event = NoEvent
    /\ save_failed = FALSE
    /\ exit = "none"
    /\ children = 0
    /\ terminal = "raw"
    /\ diagnostic = NoDiagnostic
    /\ command = NoCommand
    /\ files = Files(TRUE, FALSE)

\* Clamp with the bound off by one: index.min(len).
ClampToLen(i, box) == Min(i, Len(box.tissues))

\* Line 107: index.min(tissue_box.tissues.len().saturating_sub(1))
Clamp(i, box) == Min(i, SatDec(Len(box.tissues)))

\* Lines 107-154: clamp the highlighted index, draw the screen.
Render ==
    /\ pc = "render"
    /\ index' = Clamp(index, tissue_box)
    /\ shown_error' = last_error
    /\ io' = "draw"
    /\ pc' = "read"
    /\ UNCHANGED <<tissue_box, mode, last_error, clipboard_daemon, result, disk, dirty,
                   event, save_failed, exit, children, process>>

\* terminal.draw(..)? and event::read()? return the I/O error to run().
IoError ==
    /\ pc \in {"render", "read"}
    /\ pc' = "done"
    /\ exit' = "error"
    /\ io' = "none"
    /\ UNCHANGED <<tissue_box, index, mode, last_error, clipboard_daemon, result, disk,
                   shown_error, dirty, event, save_failed, children, process>>

\* Lines 156-157: an event that is no key press is dropped.
OtherEvent ==
    /\ pc = "read"
    /\ pc' = "render"
    /\ io' = "none"
    /\ UNCHANGED <<tissue_box, index, mode, last_error, clipboard_daemon, result, disk,
                   shown_error, dirty, event, save_failed, exit, children, process>>

\* Esc left to input() like any other key.
EscNotHandled(m, code) == m

\* q returning from the loop whatever the mode.
QuitsInAnyMode(m, code) == code = "q"

\* Lines 158-160: Esc makes the mode Normal before anything else looks at it.
EscReset(m, code) == IF code = "Esc" THEN Normal ELSE m

\* The quit taken on the capital letter only.
QuitsOnCapital(m, code) == m = Normal /\ code = "Q"

\* Line 161: q in Normal returns Ok(()).
Quits(m, code) == m = Normal /\ code = "q"

\* Lines 158-164: Esc resets the mode, q in Normal returns, any other key
\* goes through input().
KeyPress(env, code, helper_ok) ==
    /\ pc = "read"
    /\ event' = [key |-> code, mode |-> mode]
    /\ LET m == EscReset(mode, code) IN
       /\ Allowed(env, m, code)
       /\ IF Quits(m, code)
          THEN /\ pc' = "done"
               /\ exit' = "quit"
               /\ mode' = m
               /\ io' = "none"
               /\ UNCHANGED <<tissue_box, index, result, dirty>>
          ELSE LET r == input(m, code, index, tissue_box, helper_ok) IN
               /\ Bounded(env, r.box)
               /\ Len(r.result.mode.text) <= env.len
               /\ tissue_box' = r.box
               /\ index' = r.index
               /\ result' = r.result
               /\ mode' = m
               /\ dirty' = (dirty \/ r.box # tissue_box)
               /\ io' = IF r.helper = "none" THEN "none"
                        ELSE IF helper_ok THEN r.helper \o "_ok"
                        ELSE r.helper \o "_failed"
               /\ pc' = "apply"
               /\ exit' = exit
    /\ UNCHANGED <<last_error, clipboard_daemon, disk, shown_error, save_failed,
                   children, process>>

\* Line 165: InputResult::Mode(mode) => mode
ApplyMode ==
    /\ pc = "apply" /\ result.kind = "Mode"
    /\ mode' = result.mode
    /\ result' = NoResult
    /\ io' = "none"
    /\ pc' = "render"
    /\ event' = NoEvent
    /\ UNCHANGED <<tissue_box, index, last_error, clipboard_daemon, disk, shown_error,
                   dirty, save_failed, exit, children, process>>

\* ApplyCopy dropping the outcome of a hand-off that could not be made.
ApplyCopySilent(env, spawn_ok) ==
    /\ pc = "apply" /\ result.kind = "Copy"
    /\ last_error' = "Ok"
    /\ io' = IF ~clipboard_daemon THEN "none"
             ELSE IF spawn_ok THEN "spawn_ok" ELSE "spawn_failed"
    /\ children' = IF clipboard_daemon /\ spawn_ok
                   THEN Min(children + 1, env.children) ELSE children
    /\ mode' = Normal
    /\ result' = NoResult
    /\ pc' = "render"
    /\ event' = NoEvent
    /\ UNCHANGED <<tissue_box, index, clipboard_daemon, disk, shown_error, dirty,
                   save_failed, exit, process>>

\* ApplyCopy leaving the Copy sub-menu open after the hand-off.
ApplyCopyStaysInMenu(env, spawn_ok) ==
    /\ pc = "apply" /\ result.kind = "Copy"
    /\ IF clipboard_daemon
       THEN /\ last_error' = IF spawn_ok THEN "Ok" ELSE "SpawnFailed"
            /\ io' = IF spawn_ok THEN "spawn_ok" ELSE "spawn_failed"
            /\ children' = IF spawn_ok THEN Min(children + 1, env.children) ELSE children
       ELSE /\ last_error' = "MissingClipboard"
            /\ io' = "none"
            /\ children' = children
    /\ mode' = Mode("Copy")
    /\ result' = NoResult
    /\ pc' = "render"
    /\ event' = NoEvent
    /\ UNCHANGED <<tissue_box, index, clipboard_daemon, disk, shown_error, dirty,
                   save_failed, exit, process>>

\* ApplyCopy running the helper as commit and publish run theirs, with
\* output(): the loop goes on once the child has ended.
ApplyCopyWaits(env, spawn_ok) ==
    \/ /\ pc = "apply" /\ result.kind = "Copy"
       /\ IF clipboard_daemon
          THEN /\ last_error' = IF spawn_ok THEN "Ok" ELSE "SpawnFailed"
               /\ io' = IF spawn_ok THEN "spawn_ok" ELSE "spawn_failed"
               /\ children' = IF spawn_ok THEN Min(children + 1, env.children) ELSE children
               /\ pc' = IF spawn_ok THEN "wait" ELSE "render"
          ELSE /\ last_error' = "MissingClipboard"
               /\ io' = "none"
               /\ children' = children
               /\ pc' = "render"
       /\ mode' = Normal
       /\ result' = NoResult
       /\ event' = NoEvent
       /\ UNCHANGED <<tissue_box, index, clipboard_daemon, disk, shown_error, dirty,
                      save_failed, exit, process>>
    \/ /\ pc = "wait" /\ children = 0
       /\ pc' = "render"
       /\ UNCHANGED <<tissue_box, index, mode, last_error, clipboard_daemon, result,
                      disk, shown_error, dirty, io, event, save_failed, exit, children,
                      process>>

\* Lines 166-182: InputResult::Copy(text): spawn the clipboard helper, if any.
\* The Child that spawn() returns is dropped: nothing waits for it.
ApplyCopy(env, spawn_ok) ==
    /\ pc = "apply" /\ result.kind = "Copy"
    /\ IF clipboard_daemon
       THEN /\ last_error' = IF spawn_ok THEN "Ok" ELSE "SpawnFailed"
            /\ io' = IF spawn_ok THEN "spawn_ok" ELSE "spawn_failed"
            /\ children' = IF spawn_ok THEN Min(children + 1, env.children) ELSE children
       ELSE /\ last_error' = "MissingClipboard"
            /\ io' = "none"
            /\ children' = children
    /\ mode' = Normal
    /\ result' = NoResult
    /\ pc' = "render"
    /\ event' = NoEvent
    /\ UNCHANGED <<tissue_box, index, clipboard_daemon, disk, shown_error, dirty,
                   save_failed, exit, process>>

\* ApplyError leaving the gate open: the match arm yields the mode the key met.
ApplyErrorKeepsGate ==
    /\ pc = "apply" /\ result.kind = "Error"
    /\ last_error' = result.error
    /\ mode' = event.mode
    /\ result' = NoResult
    /\ io' = "none"
    /\ pc' = "render"
    /\ event' = NoEvent
    /\ UNCHANGED <<tissue_box, index, clipboard_daemon, disk, shown_error, dirty,
                   save_failed, exit, children, process>>

\* Lines 183-186: InputResult::Error(error)
ApplyError ==
    /\ pc = "apply" /\ result.kind = "Error"
    /\ last_error' = result.error
    /\ mode' = Normal
    /\ result' = NoResult
    /\ io' = "none"
    /\ pc' = "render"
    /\ event' = NoEvent
    /\ UNCHANGED <<tissue_box, index, clipboard_daemon, disk, shown_error, dirty,
                   save_failed, exit, children, process>>

\* A save that reports its outcome and writes nothing.
SaveWritesNothing(box, old, ok) == old

\* TissueBox::save: the whole store is written, or the call fails and the file
\* keeps what it held.
save(box, old, ok) == IF ok THEN box ELSE old

\* The outcome of the save propagated with `?`: a failed save ends the session.
ApplyChangedOrReturn(save_ok) ==
    /\ pc = "apply" /\ result.kind = "Changed"
    /\ disk' = IF save_ok THEN tissue_box ELSE disk
    /\ io' = IF save_ok THEN "save_ok" ELSE "save_failed"
    /\ save_failed' = ~save_ok
    /\ dirty' = FALSE
    /\ mode' = Normal
    /\ result' = NoResult
    /\ event' = NoEvent
    /\ pc' = IF save_ok THEN "render" ELSE "done"
    /\ exit' = IF save_ok THEN exit ELSE "error"
    /\ UNCHANGED <<tissue_box, index, clipboard_daemon, shown_error, last_error,
                   children, process>>

\* Lines 187-190: InputResult::Changed: save, and keep the outcome as last_error.
ApplyChanged(save_ok) ==
    /\ pc = "apply" /\ result.kind = "Changed"
    /\ disk' = save(tissue_box, disk, save_ok)
    /\ last_error' = IF save_ok THEN "Ok" ELSE "SaveFailed"
    /\ io' = IF save_ok THEN "save_ok" ELSE "save_failed"
    /\ save_failed' = ~save_ok
    /\ dirty' = FALSE
    /\ mode' = Normal
    /\ result' = NoResult
    /\ event' = NoEvent
    /\ pc' = "render"
    /\ UNCHANGED <<tissue_box, index, clipboard_daemon, shown_error, exit, children,
                   process>>

NextIn(env) ==
    \/ Render
    \/ IoError
    \/ OtherEvent
    \/ \E code \in env.keys, helper_ok \in env.helper : KeyPress(env, code, helper_ok)
    \/ ApplyMode
    \/ \E spawn_ok \in env.spawn : ApplyCopy(env, spawn_ok)
    \/ ApplyError
    \/ \E save_ok \in env.save : ApplyChanged(save_ok)

\* ---------------------------------------------------------- the keyboard
\* Every key in every mode, text typed into every capture, over a store of
\* at most KbItems items; the file system and the clipboard spawn work.
KbItems == 1
KbLen == 1
KbDesc == 2
KbTags == 1
Keyboard ==
    [keys |-> Keys, closed |-> {}, typed |-> {"a", "q"},
     items |-> KbItems, len |-> KbLen, desc |-> KbDesc, tags |-> KbTags,
     helper |-> BOOLEAN, spawn |-> {TRUE}, save |-> {TRUE}, children |-> 0]

Init == InitWith({EmptyBox}, {TRUE})
Next == NextIn(Keyboard)
Spec == Init /\ [][Next]_vars

\* The typing environment: one item, one typed character, and buffers long
\* enough for a Backspace to leave text behind.
TypeItems == 1
TypeLen == 3
TypeDesc == 1
TypeTags == 1
Typing ==
    [keys |-> Keys, closed |-> {}, typed |-> {"a"},
     items |-> TypeItems, len |-> TypeLen, desc |-> TypeDesc, tags |-> TypeTags,
     helper |-> BOOLEAN, spawn |-> {TRUE}, save |-> {TRUE}, children |-> 0]
InitTyping == InitWith({EmptyBox}, {TRUE})
NextTyping == NextIn(Typing)
SpecTyping == InitTyping /\ [][NextTyping]_vars

\* ------------------------------------------------------------- the store
\* A loaded store of three different items; every key except the ones that
\* open the Add, Describe, Tag and Edit captures; the tag typed into the
\* removal capture is the one the store holds.
MaxItems == 3
MaxLen == 1
MaxDesc == 2
MaxTags == 1
Foo == [title |-> <<"F">>, description |-> <<>>, tags |-> {<<"x">>}]
Bar == [title |-> <<"B">>, description |-> <<<<"1">>, <<"2">>>>, tags |-> {}]
Baz == [title |-> <<"Z">>, description |-> <<>>, tags |-> {}]
LoadedBox == [tissues |-> <<Foo, Bar, Baz>>, recycle_bin |-> <<>>, starred |-> Some(1)]
Loaded ==
    [keys |-> Keys, closed |-> {"a", "d", "t", "e"}, typed |-> {"x"},
     items |-> MaxItems, len |-> MaxLen, desc |-> MaxDesc, tags |-> MaxTags,
     helper |-> BOOLEAN, spawn |-> {TRUE}, save |-> {TRUE}, children |-> 0]

InitStore == InitWith({LoadedBox}, {TRUE})
NextStore == NextIn(Loaded)
SpecStore == InitStore /\ [][NextStore]_vars

\* ------------------------------------------------------------- the faults
\* Blank items are added, starred, removed and restored while the save
\* routine, the clipboard spawn and the helpers may fail, with or without a
\* clipboard helper configured.
FaultItems == 2
MaxChildren == 2
Faulty ==
    [keys |-> Keys, closed |-> {"d", "t", "e"}, typed |-> {},
     items |-> FaultItems, len |-> 0, desc |-> 0, tags |-> 0,
     helper |-> BOOLEAN, spawn |-> BOOLEAN, save |-> BOOLEAN, children |-> MaxChildren]

\* bin/tissue.rs, lines 13-19: a clipboard child has claimed the clipboard and
\* ends (on Linux set().wait() returns once another owner takes the
\* clipboard; it may never do so).
ChildExit ==
    /\ children > 0
    /\ children' = children - 1
    /\ UNCHANGED <<tissue_box, index, mode, last_error, clipboard_daemon, pc, result,
                   disk, shown_error, dirty, io, event, save_failed, exit, process>>

InitFaults == InitWith({EmptyBox}, BOOLEAN)
NextFaults == NextIn(Faulty) \/ ChildExit
SpecFaults == InitFaults /\ [][NextFaults]_vars

\* ------------------------------------------------------------ the process
\* main() of bin/tissue.rs: the marker branch of a clipboard child first;
\* then, with a command, the one-shot path (open the store, cli::run, save);
\* without one, tui::run (terminal, first-run bootstrap, session loop).

\* cli::Command::Commit(Index) and Publish(Index)
Command(kind, k) == [kind |-> kind, index |-> k]
\* cli::Describe and cli::Tag: a text and an optional tissue index.
CmdDescribe(description, opt) ==
    [kind |-> "Describe", description |-> description, index |-> opt]
CmdTag(t, opt) == [kind |-> "Tag", tag |-> t, index |-> opt]
\* cli::Remove: a tissue index and an optional WhichRemove.
NoWhich == [kind |-> "None"]
WhichDescription(i) == [kind |-> "Description", index |-> i]
WhichTag(t) == [kind |-> "Tag", tag |-> t]
CmdRemove(k, which) == [kind |-> "Remove", index |-> k, which |-> which]
\* The argument list DAEMONIZE_ARG [text] the session gives its child
\* (tui.rs:168-169); payload is None when the text is missing.
Daemonize(payload) == [kind |-> "Daemonize", index |-> 0, payload |-> payload]

\* cli::Result<Option<String>>
CliOk == [kind |-> "Ok", mode |-> Normal, text |-> <<>>, error |-> "Ok"]
CliErr(e) == [kind |-> "Err", mode |-> Normal, text |-> <<>>, error |-> e]
\* A panic inside cli::run: the call does not return.
CliPanic == [kind |-> "Panic", mode |-> Normal, text |-> <<>>, error |-> "overflow"]

\* The gate removing the tissue before it runs the helper.
RunGateRemovesFirst(failed, helper, k, box, helper_ok) ==
    IF k >= Len(box.tissues) THEN Out(CliErr("TissueNotFound"), k, box, "none")
    ELSE IF ~helper_ok THEN Out(CliErr(failed), k, remove(box, k), helper)
    ELSE Out(CliOk, k, remove(box, k), helper)

\* cli::run, lines 196-205: get_mut(index) or TissueNotFound, the helper or
\* CommitFailed / PublishFailed, then remove(index).
RunGate(failed, helper, k, box, helper_ok) ==
    IF k >= Len(box.tissues) THEN Out(CliErr("TissueNotFound"), k, box, "none")
    ELSE IF ~helper_ok THEN Out(CliErr(failed), k, box, helper)
    ELSE Out(CliOk, k, remove(box, k), helper)

\* The default index taken as the first tissue.
TargetFirst(opt, box) == IF opt = None THEN 0 ELSE opt[1]
\* cli::run, lines 164 and 169: index.unwrap_or(len - 1) on a box that holds
\* a tissue.
Target(opt, box) == IF opt = None THEN Len(box.tissues) - 1 ELSE opt[1]

\* cli::run, lines 164-165 and 169-170: `tissues.len() - 1` is computed
\* before unwrap_or looks at the index; on an empty box the subtraction
\* panics when overflow checks are compiled in and wraps to usize::MAX
\* otherwise, and then get_mut finds no tissue at any index. updated is the
\* box after describe or tag on the tissue get_mut returned.
RunOnTissue(opt, box, checks, updated) ==
    IF Len(box.tissues) = 0
    THEN Out(IF checks THEN CliPanic ELSE CliErr("TissueNotFound"), 0, box, "none")
    ELSE IF Target(opt, box) >= Len(box.tissues)
    THEN Out(CliErr("TissueNotFound"), Target(opt, box), box, "none")
    ELSE Out(CliOk, Target(opt, box), updated, "none")

\* cli::run, lines 163-167: Describe.
RunDescribe(opt, description, box, checks) ==
    RunOnTissue(opt, box, checks,
                [box EXCEPT !.tissues[Target(opt, box) + 1] = describe(@, description)])

\* cli::run, lines 168-172: Tag.
RunTag(opt, t, box, checks) ==
    RunOnTissue(opt, box, checks,
                [box EXCEPT !.tissues[Target(opt, box) + 1] = tag(@, t)])

\* cli::run, lines 173-176: TissueBox::remove or TissueNotFound.
RunRemove(k, box) ==
    IF k >= Len(box.tissues) THEN Out(CliErr("TissueNotFound"), k, box, "none")
    ELSE Out(CliOk, k, remove(box, k), "none")

\* Remove of a description taking the last entry when the index is too
\* large.
RunRemoveDescriptionClamped(k, i, box) ==
    IF k >= Len(box.tissues) THEN Out(CliErr("TissueNotFound"), k, box, "none")
    ELSE IF Len(At(box.tissues, k).description) = 0
    THEN Out(CliErr("DescriptionNotFound"), k, box, "none")
    ELSE LET d == At(box.tissues, k).description IN
         Out(CliOk, k,
             [box EXCEPT !.tissues[k + 1].description = RemoveAt(d, Min(i, Len(d) - 1))],
             "none")

\* cli::run, lines 177-185: get_mut or TissueNotFound, description.get or
\* DescriptionNotFound, then description.remove(index).
RunRemoveDescription(k, i, box) ==
    IF k >= Len(box.tissues) THEN Out(CliErr("TissueNotFound"), k, box, "none")
    ELSE IF i >= Len(At(box.tissues, k).description)
    THEN Out(CliErr("DescriptionNotFound"), k, box, "none")
    ELSE Out(CliOk, k,
             [box EXCEPT !.tissues[k + 1].description = RemoveAt(@, i)],
             "none")

\* cli::run, lines 186-195: get_mut or TissueNotFound; tags.remove(&tag)
\* tells whether the tag was there.
RunRemoveTag(k, t, box) ==
    IF k >= Len(box.tissues) THEN Out(CliErr("TissueNotFound"), k, box, "none")
    ELSE IF t \in At(box.tissues, k).tags
    THEN Out(CliOk, k, [box EXCEPT !.tissues[k + 1].tags = @ \ {t}], "none")
    ELSE Out(CliErr("TagNotFound"), k, box, "none")

\* cli::run
cli_run(cmd, box, helper_ok, checks) ==
    CASE cmd.kind = "Commit" -> RunGate("CommitFailed", "commit", cmd.index, box, helper_ok)
      [] cmd.kind = "Publish" -> RunGate("PublishFailed", "publish", cmd.index, box, helper_ok)
      [] cmd.kind = "Describe" -> RunDescribe(cmd.index, cmd.description, box, checks)
      [] cmd.kind = "Tag" -> RunTag(cmd.index, cmd.tag, box, checks)
      [] cmd.kind = "Remove" ->
            CASE cmd.which.kind = "None" -> RunRemove(cmd.index, box)
              [] cmd.which.kind = "Description" ->
                    RunRemoveDescription(cmd.index, cmd.which.index, box)
              [] cmd.which.kind = "Tag" -> RunRemoveTag(cmd.index, cmd.which.tag, box)

\* The variables of the session loop.
session ==
    <<index, mode, last_error, clipboard_daemon, shown_error, dirty, event, save_failed,
      children>>

\* error!("{msg}") on stderr, in the terminal as it is.
Report(what) == [what |-> what, terminal |-> terminal]

\* main, lines 11-20: the first argument is compared with DAEMONIZE_ARG. On a
\* match the next argument is unwrapped and the clipboard is claimed with it
\* (either unwrap panics, under the default hook); on Linux set().wait()
\* keeps the process serving the selection, elsewhere set_text returns. The
\* block ends without a return or an exit, so control goes on to line 21.
MainArgs(linux, claim_ok) ==
    /\ pc = "args"
    /\ IF command.kind # "Daemonize"
       THEN /\ pc' = "parse"
            /\ io' = "none"
            /\ UNCHANGED <<diagnostic, exit>>
       ELSE IF command.payload = None \/ ~claim_ok
       THEN /\ diagnostic' = Report("panic")
            /\ pc' = "exited"
            /\ exit' = "panic"
            /\ io' = "none"
       ELSE /\ pc' = IF linux THEN "serving" ELSE "parse"
            /\ io' = "claim"
            /\ UNCHANGED <<diagnostic, exit>>
    /\ UNCHANGED <<session, tissue_box, result, disk, terminal, command, files>>

\* main, line 16: wait() returns once another owner has taken the clipboard.
ClaimReplaced ==
    /\ pc = "serving"
    /\ pc' = "parse"
    /\ io' = "none"
    /\ UNCHANGED <<session, tissue_box, result, disk, exit, process>>

\* main, line 21: Cli::parse(). The arguments of a child are the marker and
\* the text, which name no subcommand of Cli: clap prints its usage error
\* and exits.
ParseArgs ==
    /\ pc = "parse"
    /\ IF command.kind = "Daemonize"
       THEN /\ diagnostic' = Report("usage")
            /\ pc' = "exited"
            /\ exit' = "usage"
       ELSE /\ pc' = "main"
            /\ UNCHANGED <<diagnostic, exit>>
    /\ io' = "none"
    /\ UNCHANGED <<session, tissue_box, result, disk, terminal, command, files>>

\* main, lines 27-30: TissueBox::open, or the error and exit(1); a missing
\* file makes the open fail.
MainOpen(open_ok) ==
    /\ pc = "main" /\ command # NoCommand
    /\ open_ok => files.store
    /\ IF open_ok
       THEN /\ tissue_box' = disk
            /\ pc' = "cli"
            /\ UNCHANGED <<diagnostic, exit>>
       ELSE /\ diagnostic' = Report("error")
            /\ pc' = "exited"
            /\ exit' = "error"
            /\ tissue_box' = tissue_box
    /\ io' = "none"
    /\ UNCHANGED <<session, result, disk, terminal, command, files>>

\* main, lines 32-39: cli::run; an Err is reported and the process exits
\* before the save. A panic in cli::run unwinds through main with the default
\* hook (the session's hook is installed on the other branch only): the
\* message is printed and the process ends without the save.
CliRun(helper_ok, checks) ==
    /\ pc = "cli"
    /\ LET r == cli_run(command, tissue_box, helper_ok, checks) IN
       /\ tissue_box' = r.box
       /\ result' = r.result
       /\ io' = IF r.helper = "none" THEN "none"
                ELSE IF helper_ok THEN r.helper \o "_ok"
                ELSE r.helper \o "_failed"
       /\ IF r.result.kind = "Err"
          THEN /\ diagnostic' = Report("error")
               /\ pc' = "exited"
               /\ exit' = "error"
          ELSE IF r.result.kind = "Panic"
          THEN /\ diagnostic' = Report("panic")
               /\ pc' = "exited"
               /\ exit' = "panic"
          ELSE /\ pc' = "cli_save"
               /\ UNCHANGED <<diagnostic, exit>>
    /\ UNCHANGED <<session, disk, terminal, command, files>>

\* main, lines 42-45: the save after every run.
CliSave(save_ok) ==
    /\ pc = "cli_save"
    /\ disk' = save(tissue_box, disk, save_ok)
    /\ io' = IF save_ok THEN "save_ok" ELSE "save_failed"
    /\ pc' = "exited"
    /\ exit' = IF save_ok THEN "ok" ELSE "error"
    /\ diagnostic' = IF save_ok THEN diagnostic ELSE Report("error")
    /\ UNCHANGED <<session, tissue_box, result, terminal, command, files>>

\* main, lines 48-55, and run, line 47: the panic hook is installed and
\* ratatui::init() puts the terminal in raw mode on the alternate screen.
RunInit ==
    /\ pc = "main" /\ command = NoCommand
    /\ terminal' = "raw"
    /\ pc' = "clear"
    /\ io' = "none"
    /\ UNCHANGED <<session, tissue_box, result, disk, exit, diagnostic, command, files>>

\* run, line 48: terminal.clear()?; an error returns from run at once.
ClearTerminal(clear_ok) ==
    /\ pc = "clear"
    /\ pc' = IF clear_ok THEN "open" ELSE "returned"
    /\ exit' = IF clear_ok THEN exit ELSE "error"
    /\ io' = "none"
    /\ UNCHANGED <<session, tissue_box, result, disk, process>>

\* tui, lines 56-58 and 89-95: path.try_exists()?; an existing file is
\* loaded; a missing one, outside a git repository, is written empty and
\* loaded; in a repository the prompt comes first. An I/O error on the way
\* returns to run before anything is written.
OpenStore(open_ok) ==
    /\ pc = "open"
    /\ IF ~open_ok
       THEN /\ pc' = "done"
            /\ exit' = "error"
            /\ UNCHANGED <<tissue_box, disk, files>>
       ELSE IF files.store
       THEN /\ tissue_box' = disk
            /\ pc' = "render"
            /\ UNCHANGED <<exit, disk, files>>
       ELSE IF files.git
       THEN /\ pc' = "git_prompt"
            /\ UNCHANGED <<exit, tissue_box, disk, files>>
       ELSE /\ files' = [files EXCEPT !.store = TRUE]
            /\ disk' = EmptyBox
            /\ tissue_box' = EmptyBox
            /\ pc' = "render"
            /\ exit' = exit
    /\ io' = "none"
    /\ UNCHANGED <<session, result, terminal, diagnostic, command>>

\* The answers of the 'git_prompt loop, tui lines 76-81: both arms break
\* with true.
response(code) ==
    IF code \in {"y", "Y"} THEN Some(TRUE)
    ELSE IF code \in {"n", "N"} THEN Some(TRUE)
    ELSE None

\* tui, lines 59-101: one turn of the 'git_prompt loop (draw, read, match)
\* and, once it breaks, fs::write(path, []), TissueBox::open and the append
\* to .git/info/exclude when the response is true. failed names the `?`
\* that returned an I/O error: "event" (draw or read), "write", "open",
\* "append", or "none".
GitPrompt(code, failed) ==
    /\ pc = "git_prompt"
    /\ event' = [key |-> code, mode |-> Mode("GitPrompt")]
    /\ IF failed = "event"
       THEN /\ pc' = "done" /\ exit' = "error"
            /\ UNCHANGED <<tissue_box, disk, files>>
       ELSE IF response(code) = None
       THEN UNCHANGED <<pc, exit, tissue_box, disk, files>>
       ELSE IF failed = "write"
       THEN /\ pc' = "done" /\ exit' = "error"
            /\ UNCHANGED <<tissue_box, disk, files>>
       ELSE IF failed = "open"
       THEN /\ pc' = "done" /\ exit' = "error"
            /\ files' = [files EXCEPT !.store = TRUE]
            /\ disk' = EmptyBox
            /\ tissue_box' = tissue_box
       ELSE /\ disk' = EmptyBox
            /\ tissue_box' = EmptyBox
            /\ IF failed = "append"
               THEN /\ pc' = "done" /\ exit' = "error"
                    /\ files' = [files EXCEPT !.store = TRUE]
               ELSE /\ pc' = "render" /\ exit' = exit
                    /\ files' = [files EXCEPT !.store = TRUE,
                                              !.exclude = IF response(code)[1]
                                                          THEN @ + 1 ELSE @]
    /\ io' = "none"
    /\ UNCHANGED <<index, mode, last_error, clipboard_daemon, shown_error, dirty,
                   save_failed, children, result, terminal, diagnostic, command>>

\* tui, lines 147-148: `area.height - 5` and `paragraph_area.height / 2 - 1`
\* on a terminal of fewer than five rows overflow u16, which panics in a
\* build with overflow checks.
Panic ==
    /\ pc = "render"
    /\ pc' = "panic"
    /\ exit' = "panic"
    /\ io' = "none"
    /\ UNCHANGED <<session, tissue_box, result, disk, process>>

\* main, lines 51-52: the hook leaves raw mode and the alternate screen.
PanicHookRestore ==
    /\ pc = "panic"
    /\ terminal' = "cooked"
    /\ pc' = "panic_report"
    /\ io' = "none"
    /\ UNCHANGED <<session, tissue_box, result, disk, exit, diagnostic, command, files>>

\* main, line 53: original_hook(panic_info) prints the panic; the process
\* ends.
PanicHookReport ==
    /\ pc = "panic_report"
    /\ diagnostic' = Report("panic")
    /\ pc' = "exited"
    /\ io' = "none"
    /\ UNCHANGED <<session, tissue_box, result, disk, exit, terminal, command, files>>

\* run, lines 49-51: tui has returned; ratatui::restore().
RunRestore ==
    /\ pc = "done"
    /\ terminal' = "cooked"
    /\ pc' = "returned"
    /\ io' = "none"
    /\ UNCHANGED <<session, tissue_box, result, disk, exit, diagnostic, command, files>>

\* main, lines 55-58: an Err from run is reported, exit(1); Ok ends main.
MainReturn ==
    /\ pc = "returned"
    /\ diagnostic' = IF exit = "error" THEN Report("error") ELSE diagnostic
    /\ pc' = "exited"
    /\ io' = "none"
    /\ UNCHANGED <<session, tissue_box, result, disk, exit, terminal, command, files>>

\* Stores of up to MainItems of the loaded items, any of them starred, in a
\* directory with or without the store file and .git; the one-shot commands
\* name indexes up to one past the last item; the child's arguments come with
\* and without the text; in the session the Describe capture, the Copy menu,
\* the gates and the help.
MainItems == 2
MainBoxes ==
    UNION {{[tissues |-> SubSeq(<<Foo, Bar, Baz>>, 1, n), recycle_bin |-> <<>>,
             starred |-> st] : st \in {None} \cup {Some(k) : k \in 0..(n - 1)}} :
           n \in 0..MainItems}
MainIndexes == 0..MainItems
MainCommands ==
    {Command(kind, k) : kind \in {"Commit", "Publish"}, k \in MainIndexes}
    \cup {CmdDescribe(<<"x">>, k) : k \in {None} \cup {Some(j) : j \in MainIndexes}}
    \cup {CmdTag(<<"b">>, k) : k \in {None} \cup {Some(j) : j \in MainIndexes}}
    \cup {CmdRemove(k, which) :
            k \in MainIndexes,
            which \in {NoWhich, WhichTag(<<"x">>), WhichTag(<<"b">>)}
                      \cup {WhichDescription(i) : i \in MainIndexes}}
Whole ==
    [keys |-> Keys, closed |-> {"a", "t", "e", "r", "R", "*"}, typed |-> {"x"},
     items |-> MainItems, len |-> MaxLen, desc |-> MaxDesc, tags |-> MaxTags,
     helper |-> BOOLEAN, spawn |-> {TRUE}, save |-> {TRUE}, children |-> 0]

InitMain ==
    /\ files \in {Files(store, git) : store, git \in BOOLEAN}
    /\ disk \in IF files.store THEN MainBoxes ELSE {EmptyBox}
    /\ command \in {NoCommand} \cup MainCommands
                  \cup {Daemonize(None), Daemonize(Some(<<"F">>))}
    /\ tissue_box = EmptyBox
    /\ index = 0
    /\ mode = Normal
    /\ last_error = "Ok"
    /\ clipboard_daemon = TRUE
    /\ pc = "args"
    /\ result = NoResult
    /\ shown_error = "Ok"
    /\ dirty = FALSE
    /\ io = "none"
    /\ event = NoEvent
    /\ save_failed = FALSE
    /\ exit = "none"
    /\ children = 0
    /\ terminal = "cooked"
    /\ diagnostic = NoDiagnostic
NextMain ==
    \/ \E linux, claim_ok \in BOOLEAN : MainArgs(linux, claim_ok)
    \/ ClaimReplaced
    \/ ParseArgs
    \/ \E open_ok \in BOOLEAN : MainOpen(open_ok)
    \/ \E helper_ok, checks \in BOOLEAN : CliRun(helper_ok, checks)
    \/ \E save_ok \in BOOLEAN : CliSave(save_ok)
    \/ RunInit
    \/ \E clear_ok \in BOOLEAN : ClearTerminal(clear_ok)
    \/ \E open_ok \in BOOLEAN : OpenStore(open_ok)
    \/ \E code \in Keys, failed \in {"none", "event", "write", "open", "append"} :
            GitPrompt(code, failed)
    \/ NextIn(Whole)
    \/ Panic
    \/ PanicHookRestore
    \/ PanicHookReport
    \/ RunRestore
    \/ MainReturn
SpecMain == InitMain /\ [][NextMain]_vars

\* ------------------------------------------------------------------ claims
Live == tissue_box.tissues
Bin == tissue_box.recycle_bin

\* C1: whenever the screen has been drawn and the loop waits for a key (the
\* state every render shows and every key press meets), the highlighted
\* index is at most len(live)-1, and 0 on an empty live sequence; the index
\* walked by RemoveDescription is below the number of description entries of
\* the highlighted item; the index walked by Restore is below the length of
\* the recycle bin.
C1_IndexInBounds ==
    pc = "read" =>
        /\ Len(Live) > 0 => index <= Len(Live) - 1
        /\ Len(Live) = 0 => index = 0
        /\ mode.kind = "RemoveDescription" =>
            /\ index < Len(Live)
            /\ mode.i < Len(At(Live, index).description)
        /\ mode.kind = "Restore" => mode.i < Len(Bin)

\* The last live item was removed with the highlight on it, and the description
\* selector has walked to the second entry of the item now highlighted.
C1_Witness ==
    /\ pc = "read"
    /\ Len(Bin) >= 1
    /\ index = Len(Live) - 1
    /\ mode = WalkMode("RemoveDescription", 1)

\* C2: a key press that changed the store is followed by the call of the save
\* routine before the loop renders or reads again: no render and no read
\* happens while a change waits for its save call.
C2_SaveBeforeRender == pc \in {"render", "read"} => ~dirty

\* A changed store whose save has been called, on the way to the next render.
C2_Witness ==
    /\ pc = "render"
    /\ io = "save_ok"
    /\ ~dirty
    /\ Len(Live) = 1
    /\ At(Live, 0).tags # {}

\* C3: every key press that changes the live sequence, the recycle bin or the
\* star returns InputResult::Changed.
C3_MutationReturnsChanged ==
    [][tissue_box' # tissue_box => (pc' = "apply" /\ result'.kind = "Changed")]_vars

\* A key press has changed the store and input has returned Changed.
C3_Witness ==
    /\ pc = "apply"
    /\ dirty
    /\ result.kind = "Changed"
    /\ event.mode.kind = "RemoveDescription"

\* C4: a key press that leaves the store unchanged never returns
\* InputResult::Changed (and so never reaches the save call).
C4_NoChangeNoPersist ==
    [][(pc = "read" /\ pc' = "apply" /\ tissue_box' = tissue_box)
        => result'.kind # "Changed"]_vars

\* C5: Esc in a mode other than Normal makes the mode Normal, returns the
\* plain mode change to Normal (an empty buffer, no walked index), and leaves
\* the store and the highlighted index alone; no helper runs; the result is
\* then applied without a save call.
C5_CancelStep ==
    (pc = "read" /\ mode # Normal /\ event'.key = "Esc" /\ pc' # pc)
        => /\ pc' = "apply"
           /\ mode' = Normal
           /\ result' = ResMode(Normal)
           /\ tissue_box' = tissue_box
           /\ index' = index
           /\ io' = "none"
           /\ dirty' = dirty
C5_CancelApply ==
    (pc = "apply" /\ event.key = "Esc" /\ pc' # pc)
        => /\ pc' = "render"
           /\ mode' = Normal
           /\ io' = "none"
           /\ UNCHANGED <<tissue_box, index, disk, last_error>>
C5_Cancel == [][C5_CancelStep /\ C5_CancelApply]_vars

\* Esc has been pressed on a text capture that holds typed text.
C5_Witness ==
    /\ pc = "apply"
    /\ event.key = "Esc"
    /\ event.mode.kind \in TextKinds
    /\ event.mode.text # <<>>
    /\ Len(Live) = 1

\* C6: the session starts in Normal, and a key press ends it only when the
\* mode is Normal and the key is q.
C6_QuitStep ==
    (pc' = "done" /\ exit' = "quit" /\ pc # "done")
        => (pc = "read" /\ mode = Normal /\ event'.key = "q")
C6_QuitOnlyInNormal ==
    /\ (pc = "render" /\ mode = Normal /\ exit = "none")
    /\ [][C6_QuitStep]_vars
    /\ []((pc = "done" /\ exit = "quit") => (event.key = "q" /\ event.mode = Normal))

\* q was pressed in a mode other than Normal and the session goes on.
C6_Witness ==
    /\ pc = "apply"
    /\ event.key = "q"
    /\ event.mode.kind = "Remove"
    /\ exit = "none"

\* C7: when the save routine fails, the failure becomes last_error and the
\* next render draws it; the session goes on in Normal and the in-memory
\* store keeps the value the key press gave it.
C7_FailedSaveStep ==
    (pc = "apply" /\ result.kind = "Changed" /\ save_failed' /\ pc' # pc)
        => /\ pc' = "render"
           /\ exit' = "none"
           /\ mode' = Normal
           /\ last_error' = "SaveFailed"
           /\ tissue_box' = tissue_box
C7_FailedSaveRender ==
    (pc = "render" /\ io = "save_failed" /\ pc' = "read")
        => /\ shown_error' = "SaveFailed"
           /\ tissue_box' = tissue_box
           /\ mode' = Normal
C7_SaveFailureShown == [][C7_FailedSaveStep /\ C7_FailedSaveRender]_vars

\* The failed save of a removal is on the screen, the removed item is in the
\* in-memory recycle bin and missing from the file.
C7_Witness ==
    /\ pc = "read"
    /\ shown_error = "SaveFailed"
    /\ mode = Normal
    /\ Len(Bin) = 1
    /\ Len(disk.recycle_bin) = 0

\* The items of a store, live and removed.
Total(box) == Len(box.tissues) + Len(box.recycle_bin)

\* Store b is store d after one mutation of the kinds input performs.
ItemStep(x, y) ==
    \/ y = [x EXCEPT !.title = y.title]
    \/ /\ Len(y.description) = Len(x.description) + 1
       /\ y = describe(x, y.description[Len(y.description)])
    \/ \E i \in 0..(Len(x.description) - 1) :
        y = [x EXCEPT !.description = RemoveAt(@, i)]
    \/ \E t \in y.tags : y = tag(x, t)
    \/ \E t \in x.tags : y = [x EXCEPT !.tags = @ \ {t}]
OneStep(d, b) ==
    \/ b = [d EXCEPT !.starred = b.starred]
    \/ /\ Len(b.tissues) = Len(d.tissues) + 1
       /\ b = create(d, b.tissues[Len(b.tissues)].title)
    \/ \E k \in 0..(Len(d.tissues) - 1) : b = remove(d, k)
    \/ \E i \in 0..(Len(d.recycle_bin) - 1) : b = restore(d, i)
    \/ /\ Len(b.tissues) = Len(d.tissues)
       /\ \E k \in 1..Len(d.tissues) :
            /\ ItemStep(d.tissues[k], b.tissues[k])
            /\ b = [d EXCEPT !.tissues[k] = b.tissues[k]]

RemovalStep ==
    /\ pc = "read" /\ pc' = "apply"
    /\ \/ event'.mode.kind = "Remove" /\ event'.key = "T"
       \/ /\ event'.mode.kind \in {"Commit", "Publish"}
          /\ event'.key \in {"y", "Y"}
          /\ io' \in {"commit_ok", "publish_ok"}
C9_RemovalEffect ==
    LET old == tissue_box
        new == tissue_box'
        k == index
    IN  /\ k < Len(old.tissues)
        /\ Len(new.tissues) = Len(old.tissues) - 1
        /\ \A j \in 1..Len(new.tissues) :
            new.tissues[j] = IF j <= k THEN old.tissues[j] ELSE old.tissues[j + 1]
        /\ Len(new.recycle_bin) = Len(old.recycle_bin) + 1
        /\ \A j \in 1..Len(old.recycle_bin) : new.recycle_bin[j] = old.recycle_bin[j]
        /\ new.recycle_bin[Len(new.recycle_bin)] = old.tissues[k + 1]
        /\ old.starred = Some(k) => new.starred = None
        /\ result'.kind = "Changed"
RestoreStep ==
    /\ pc = "read" /\ pc' = "apply"
    /\ event'.mode.kind = "Restore" /\ event'.key = "Enter"
C10_RestoreEffect ==
    LET old == tissue_box
        new == tissue_box'
        i == mode.i
    IN  /\ i < Len(old.recycle_bin)
        /\ Len(new.tissues) = Len(old.tissues) + 1
        /\ \A j \in 1..Len(old.tissues) : new.tissues[j] = old.tissues[j]
        /\ new.tissues[Len(new.tissues)] = old.recycle_bin[i + 1]
        /\ Len(new.recycle_bin) = Len(old.recycle_bin) - 1
        /\ \A j \in 1..Len(new.recycle_bin) :
            new.recycle_bin[j] = IF j <= i THEN old.recycle_bin[j] ELSE old.recycle_bin[j + 1]
        /\ new.starred = old.starred
        /\ result'.kind = "Changed"
C10_ApplyRestore ==
    (pc = "apply" /\ event.mode.kind = "Restore" /\ event.key = "Enter" /\ pc' # pc)
        => (pc' = "render" /\ mode' = Normal /\ io' \in {"save_ok", "save_failed"})
C10_RestoreMovesToLive == [][(RestoreStep => C10_RestoreEffect) /\ C10_ApplyRestore]_vars

\* The middle entry of a recycle bin of three was restored into an empty
\* live sequence.
C10_Witness ==
    /\ pc = "apply"
    /\ event.mode = WalkMode("Restore", 1) /\ event.key = "Enter"
    /\ Len(Live) = 1
    /\ Len(Bin) = 2
    /\ At(Bin, 0) # At(Bin, 1)

C12_StarInRange ==
    tissue_box.starred = None \/ tissue_box.starred[1] < Len(Live)
C12_StarValid ==
    /\ []C12_StarInRange
    /\ [][(RemovalStep /\ tissue_box.starred = Some(index))
            => tissue_box'.starred = None]_vars

\* The number of times item x occurs in the live sequence and the recycle bin.
Occurrences(box, x) ==
    Cardinality({j \in 1..Len(box.tissues) : box.tissues[j] = x})
        + Cardinality({j \in 1..Len(box.recycle_bin) : box.recycle_bin[j] = x})
Items(box) ==
    {box.tissues[j] : j \in 1..Len(box.tissues)}
        \cup {box.recycle_bin[j] : j \in 1..Len(box.recycle_bin)}

\* C13: no step makes len(live) + len(recycle bin) smaller; it grows, by
\* one, only when Enter commits the Add capture; a removal (T in the Remove
\* sub-menu, y in a gate whose helper succeeded) and a restore keep every
\* item, each as often as before, in the live sequence or the recycle bin.
C13_ItemsStep ==
    /\ Total(tissue_box') >= Total(tissue_box)
    /\ Total(tissue_box') > Total(tissue_box)
        => /\ Total(tissue_box') = Total(tissue_box) + 1
           /\ event'.mode.kind = "Add" /\ event'.key = "Enter"
    /\ (RemovalStep \/ RestoreStep)
        => \A x \in Items(tissue_box) \cup Items(tissue_box') :
            Occurrences(tissue_box', x) = Occurrences(tissue_box, x)
GateFailedStep ==
    /\ pc = "read" /\ pc' = "apply"
    /\ mode.kind \in {"Commit", "Publish"}
    /\ event'.key \in {"y", "Y"}
    /\ io' \in {"commit_failed", "publish_failed"}

C15_FailStep ==
    GateFailedStep
        => /\ result' = ResError("HelperFailed")
           /\ tissue_box' = tissue_box
           /\ index' = index
C15_FailApply ==
    (pc = "apply" /\ result.kind = "Error" /\ pc' # pc)
        => /\ pc' = "render"
           /\ mode' = Normal
           /\ last_error' = result.error
           /\ io' = "none"
           /\ UNCHANGED <<tissue_box, index, disk>>
C15_FailRender ==
    (pc = "render" /\ last_error = "HelperFailed" /\ pc' = "read")
        => (shown_error' = "HelperFailed" /\ mode' = mode)
C16_ErrorUntilNextKey ==
    [][/\ (pc = "render" /\ pc' = "read") => shown_error' = last_error
       /\ (pc = "apply" /\ result.kind = "Mode" /\ pc' = "render")
            => last_error' = "Ok"]_vars

\* C17 as claimed: a copy request that cannot be handed off (no helper
\* configured, or the spawn fails) leaves the fixed clipboard-unavailable
\* reason as the error, and the store as it was.
HandOffFailedStep ==
    /\ pc = "apply" /\ result.kind = "Copy" /\ pc' # pc
    /\ ~clipboard_daemon \/ io' = "spawn_failed"
C17_FixedReason ==
    [][HandOffFailedStep
        => (last_error' = "MissingClipboard" /\ tissue_box' = tissue_box)]_vars

\* C17 as amended: without a helper the error is the fixed MissingClipboard
\* reason; a failed spawn leaves the I/O error of the spawn; either way the
\* store and the file are unchanged, the request is consumed, and a spawn is
\* attempted only by the step that applies a Copy result.
C17_FailedStep ==
    HandOffFailedStep
        => /\ last_error' = IF clipboard_daemon THEN "SpawnFailed" ELSE "MissingClipboard"
           /\ result' = NoResult
           /\ pc' = "render"
           /\ children' = children
           /\ UNCHANGED <<tissue_box, disk>>
C17_OneAttempt ==
    (io' \in {"spawn_ok", "spawn_failed"} /\ pc' # pc)
        => (pc = "apply" /\ result.kind = "Copy" /\ clipboard_daemon)
C17_FailedHandOff == [][C17_FailedStep /\ C17_OneAttempt]_vars

\* No clipboard helper is configured and a copy was requested.
C17_Witness ==
    /\ pc = "render"
    /\ ~clipboard_daemon
    /\ last_error = "MissingClipboard"
    /\ result = NoResult
    /\ Len(Live) = 1

\* C18: t, d or l in the Copy sub-menu returns InputResult::Copy with the
\* store untouched; applying it, whatever the hand-off did, leaves the mode
\* Normal, the store and the file unchanged, and calls no save.
C18_CopyKey ==
    (pc = "read" /\ pc' = "apply" /\ mode.kind = "Copy" /\ event'.key \in {"t", "d", "l"})
        => /\ result'.kind = "Copy"
           /\ tissue_box' = tissue_box
           /\ dirty' = dirty
           /\ io' = "none"
C18_CopyApply ==
    (pc = "apply" /\ result.kind = "Copy" /\ pc' # pc)
        => /\ pc' = "render"
           /\ mode' = Normal
           /\ io' \notin {"save_ok", "save_failed"}
           /\ UNCHANGED <<tissue_box, disk, save_failed, dirty>>
C18_CopyReturnsToNormal == [][C18_CopyKey /\ C18_CopyApply]_vars

\* The spawn of the clipboard helper failed and the session is in Normal.
C18_Witness ==
    /\ pc = "render"
    /\ io = "spawn_failed"
    /\ mode = Normal
    /\ last_error = "SpawnFailed"

\* C19: while a clipboard child is alive the session is never at a point
\* where it waits for it: at the render the render can happen, at the read
\* a key press can be handled, a returned result can be applied; the step
\* that spawns a child goes straight on to the next render.
C19_NoWait ==
    (children > 0 /\ pc # "done")
        => /\ pc \in {"render", "read", "apply"}
           /\ pc = "render" => ENABLED Render
           /\ pc = "read" => ENABLED (\E code \in Keys : KeyPress(Faulty, code, TRUE))
           /\ pc = "apply" =>
                ENABLED (\/ ApplyMode
                         \/ ApplyCopy(Faulty, TRUE)
                         \/ ApplyError
                         \/ ApplyChanged(TRUE))
C19_ParentNeverWaits ==
    /\ []C19_NoWait
    /\ [][children' > children => (pc = "apply" /\ pc' = "render")]_vars

\* Two copies were handed off, both children are alive, and the session has
\* ended on q.
C19_Witness ==
    /\ pc = "done"
    /\ exit = "quit"
    /\ children = 2

\* C14: y in the Commit or Publish gate of the session, and the one-shot
\* Commit and Publish commands on an existing tissue: when the helper
\* succeeds the targeted item leaves the live sequence (into the recycle
\* bin); when it fails the store is unchanged and the failure is returned as
\* an error value (InputResult::Error with the helper's error, CommitFailed
\* or PublishFailed from cli::run, which is reported and nothing is saved).
Without(old, new, k) ==
    /\ Len(new.tissues) = Len(old.tissues) - 1
    /\ \A j \in 1..Len(new.tissues) :
        new.tissues[j] = IF j <= k THEN old.tissues[j] ELSE old.tissues[j + 1]
    /\ new.recycle_bin = Append(old.recycle_bin, old.tissues[k + 1])
C14_GateStep ==
    (/\ pc = "read" /\ pc' = "apply"
     /\ mode.kind \in {"Commit", "Publish"}
     /\ event'.key \in {"y", "Y"})
        => IF io' \in {"commit_ok", "publish_ok"}
           THEN /\ Without(tissue_box, tissue_box', index)
                /\ result' = ResChanged
           ELSE /\ io' \in {"commit_failed", "publish_failed"}
                /\ tissue_box' = tissue_box
                /\ result' = ResError("HelperFailed")
C14_CommandStep ==
    (/\ pc = "cli" /\ pc' # pc
     /\ command.kind \in {"Commit", "Publish"}
     /\ command.index < Len(Live))
        => IF io' = (IF command.kind = "Commit" THEN "commit_ok" ELSE "publish_ok")
           THEN /\ Without(tissue_box, tissue_box', command.index)
                /\ result' = CliOk
                /\ pc' = "cli_save"
           ELSE /\ io' = (IF command.kind = "Commit" THEN "commit_failed"
                          ELSE "publish_failed")
                /\ tissue_box' = tissue_box
                /\ result' = CliErr(IF command.kind = "Commit" THEN "CommitFailed"
                                    ELSE "PublishFailed")
                /\ pc' = "exited" /\ exit' = "error"
                /\ disk' = disk
C14_RemovedIffHelperSucceeds == [][C14_GateStep /\ C14_CommandStep]_vars

\* The one-shot Publish of the second of two tissues failed: both are still
\* live, the error is PublishFailed, the process has reported it and ended.
C14_Witness ==
    /\ pc = "exited"
    /\ command = Command("Publish", 1)
    /\ result = CliErr("PublishFailed")
    /\ Live = <<Foo, Bar>>
    /\ diagnostic.what = "error"

\* C20: when the process of an interactive session has ended the terminal
\* is out of raw mode, and the report of a panic is written to a terminal
\* that is out of raw mode.
C20_TerminalRestored ==
    /\ (pc = "exited" /\ command = NoCommand) => terminal = "cooked"
    /\ diagnostic.what = "panic" => diagnostic.terminal = "cooked"

\* A key press handled by input() in Normal.
NormalKey(keys) ==
    /\ pc = "read" /\ pc' = "apply"
    /\ mode = Normal
    /\ event'.key \in keys
Untouched == tissue_box' = tissue_box /\ index' = index

\* C22: in Normal, a opens the Add capture; d, t, e, c, C, P, r open their
\* mode exactly when the live sequence is non-empty; R opens Restore(0)
\* exactly when the recycle bin is non-empty; a key whose precondition fails,
\* and a key bound to nothing, returns Mode::Normal; in all of these the
\* store and the highlighted index are unchanged.
Opened(key) ==
    CASE key = "a" -> TextMode("Add", <<>>)
      [] key = "d" -> TextMode("Describe", <<>>)
      [] key = "t" -> TextMode("Tag", <<>>)
      [] key = "e" -> TextMode("Edit", <<>>)
      [] key = "c" -> Mode("Copy")
      [] key = "C" -> Mode("Commit")
      [] key = "P" -> Mode("Publish")
      [] key = "r" -> Mode("Remove")
      [] key = "R" -> WalkMode("Restore", 0)
Unbound == {"x", "y", "Y", "n", "N", "T", "Enter", "Backspace", "Tab", "Esc"}
C22_OpenStep ==
    /\ NormalKey({"a"}) => (result' = ResMode(Opened("a")) /\ Untouched)
    /\ NormalKey({"d", "t", "e", "c", "C", "P", "r"})
        => /\ result' = ResMode(IF Len(Live) # 0 THEN Opened(event'.key) ELSE Normal)
           /\ Untouched
    /\ NormalKey({"R"})
        => /\ result' = ResMode(IF Len(Bin) # 0 THEN Opened("R") ELSE Normal)
           /\ Untouched
    /\ NormalKey(Unbound) => (result' = ResMode(Normal) /\ Untouched)
    /\ (NormalKey({"*"}) /\ Len(Live) = 0) => (result' = ResMode(Normal) /\ Untouched)
C22_NormalOpens == [][C22_OpenStep]_vars

\* R was pressed in Normal on an empty recycle bin with an item live: the
\* result is Normal again.
C22_Witness ==
    /\ pc = "apply"
    /\ event = [key |-> "R", mode |-> Normal]
    /\ result = ResMode(Normal)
    /\ Len(Bin) = 0
    /\ Len(Live) = 1

\* C23: * in Normal on a non-empty live sequence: with no star, the
\* highlighted item is starred; with the star on the highlighted item, the
\* star is removed; with the star elsewhere, the highlighted index becomes
\* the starred index and the star stays; the live items and the recycle bin
\* are unchanged in all three.
C23_StarStep ==
    (NormalKey({"*"}) /\ Len(Live) # 0)
        => /\ Live' = Live /\ Bin' = Bin
           /\ IF tissue_box.starred = None
              THEN tissue_box'.starred = Some(index) /\ index' = index
              ELSE IF tissue_box.starred = Some(index)
              THEN tissue_box'.starred = None /\ index' = index
              ELSE /\ tissue_box'.starred = tissue_box.starred
                   /\ index' = tissue_box.starred[1]
C23_StarKey == [][C23_StarStep]_vars

\* * was pressed with the star on another item: the highlight is on the
\* starred item, the third of three, and the store is as it was saved.
C23_Witness ==
    /\ pc = "apply"
    /\ event = [key |-> "*", mode |-> Normal]
    /\ ~dirty
    /\ Len(Live) = 3
    /\ index = 2
    /\ tissue_box.starred = Some(2)

\* C26: in every state of the session loop (the mode being the one input()
\* returned while its result is applied), a mode that works on the
\* highlighted item (Describe, Tag, Edit, Copy, Publish, Commit, Remove,
\* RemoveDescription, RemoveTag) has a non-empty live sequence and a
\* highlighted index below its length; in RemoveDescription the item has a
\* description entry; in Restore the recycle bin is non-empty.
ItemModes ==
    {"Describe", "Tag", "Edit", "Copy", "Publish", "Commit", "Remove",
     "RemoveDescription", "RemoveTag"}
ModePrecondition(m) ==
    /\ m.kind \in ItemModes => (Len(Live) # 0 /\ index < Len(Live))
    /\ m.kind = "RemoveDescription"
        => (index < Len(Live) /\ Len(At(Live, index).description) >= 1)
    /\ m.kind = "Restore" => Len(Bin) >= 1
C26_ModePreconditions ==
    /\ pc \in {"render", "read"} => ModePrecondition(mode)
    /\ (pc = "apply" /\ result.kind = "Mode") => ModePrecondition(result.mode)

\* The session waits for a key in RemoveDescription on an item that was
\* added and described by key presses.
C26_Witness ==
    /\ pc = "read"
    /\ mode.kind = "RemoveDescription"
    /\ Len(At(Live, index).description) = 2

\* C30: in the Commit and Publish gates a key other than y and Y runs no
\* helper and leaves the store alone: n and N (and Esc) return to Normal,
\* any other key leaves the gate open; applying the result saves nothing.
GateKind == {"Commit", "Publish"}
C30_GateKey ==
    (/\ pc = "read" /\ pc' = "apply"
     /\ mode.kind \in GateKind
     /\ event'.key \notin {"y", "Y"})
        => /\ io' = "none"
           /\ Untouched
           /\ dirty' = dirty
           /\ result' = ResMode(IF event'.key \in {"n", "N", "Esc"} THEN Normal ELSE mode)
C30_GateApply ==
    (/\ pc = "apply" /\ pc' # pc
     /\ event.mode.kind \in GateKind
     /\ event.key \notin {"y", "Y"})
        => /\ pc' = "render"
           /\ mode' = (IF event.key \in {"n", "N", "Esc"} THEN Normal ELSE event.mode)
           /\ io' = "none"
           /\ UNCHANGED <<tissue_box, disk, last_error>>
C30_HelperOnlyOnYes == [][C30_GateKey /\ C30_GateApply]_vars

\* Enter was pressed in the Publish gate: the gate stays open, no helper ran
\* and the item is still live.
C30_Witness ==
    /\ pc = "apply"
    /\ event = [key |-> "Enter", mode |-> Mode("Publish")]
    /\ result = ResMode(Mode("Publish"))
    /\ Len(Live) = 1
    /\ io = "none"

\* C29: a key other than Enter and Esc pressed in a text capture (Add,
\* Describe, Tag, Edit, RemoveTag) leaves the capture open with its buffer
\* extended by the character, shortened by one for Backspace (unchanged when
\* empty), and unchanged for any other key; the store and the highlighted
\* index are unchanged, and the applied result is the new mode.
Edited(text, key) ==
    IF key \in Chars THEN text \o <<key>>
    ELSE IF key = "Backspace" /\ text # <<>>
    THEN [j \in 1..(Len(text) - 1) |-> text[j]]
    ELSE text
C29_CaptureKey ==
    (/\ pc = "read" /\ pc' = "apply"
     /\ mode.kind \in TextKinds
     /\ event'.key \notin {"Enter", "Esc"})
        => /\ result' = ResMode(TextMode(mode.kind, Edited(mode.text, event'.key)))
           /\ Untouched
           /\ UNCHANGED <<disk, dirty>>
C29_CaptureApply ==
    (/\ pc = "apply" /\ pc' # pc
     /\ event.mode.kind \in TextKinds
     /\ event.key \notin {"Enter", "Esc"})
        => /\ mode' = result.mode
           /\ Untouched
           /\ UNCHANGED <<disk, dirty>>
C29_BufferFollowsKeys == [][C29_CaptureKey /\ C29_CaptureApply]_vars

\* Backspace was pressed on a buffer of three characters in the Describe
\* capture: two are left.
C29_Witness ==
    /\ pc = "apply"
    /\ event = [key |-> "Backspace", mode |-> TextMode("Describe", <<"a", "a", "a">>)]
    /\ result = ResMode(TextMode("Describe", <<"a", "a">>))

\* The boxes old and new differ only in the tissue at k, which keeps its
\* title.
OnlyTissue(old, new, k) ==
    /\ Len(new.tissues) = Len(old.tissues)
    /\ \A j \in 1..Len(old.tissues) : j # k + 1 => new.tissues[j] = old.tissues[j]
    /\ new.tissues[k + 1].title = old.tissues[k + 1].title
    /\ new.recycle_bin = old.recycle_bin
    /\ new.starred = old.starred
\* new is old with text as one more description entry at the tail of tissue k.
Described(old, new, k, text) ==
    /\ OnlyTissue(old, new, k)
    /\ new.tissues[k + 1].tags = old.tissues[k + 1].tags
    /\ LET before == old.tissues[k + 1].description
           after == new.tissues[k + 1].description IN
       /\ Len(after) = Len(before) + 1
       /\ after[Len(after)] = text
       /\ \A j \in 1..Len(before) : after[j] = before[j]
\* new is old with the tag t in the tag set of tissue k.
Tagged(old, new, k, t) ==
    /\ OnlyTissue(old, new, k)
    /\ new.tissues[k + 1].description = old.tissues[k + 1].description
    /\ new.tissues[k + 1].tags = old.tissues[k + 1].tags \cup {t}

\* C21: Enter in the Describe capture, and the one-shot Describe with the
\* index of an existing tissue, append the entered text as one entry at the
\* tail of that tissue's descriptions and change nothing else in the box;
\* the session returns Changed, saves and goes back to Normal.
C21_CaptureStep ==
    (/\ pc = "read" /\ pc' = "apply"
     /\ mode.kind = "Describe"
     /\ event'.key = "Enter")
        => /\ Described(tissue_box, tissue_box', index, mode.text)
           /\ result' = ResChanged
           /\ index' = index
C21_CaptureApply ==
    (/\ pc = "apply" /\ pc' = "render"
     /\ event.mode.kind = "Describe"
     /\ event.key = "Enter")
        => /\ mode' = Normal
           /\ disk' = tissue_box
           /\ tissue_box' = tissue_box
C21_CommandStep ==
    (/\ pc = "cli" /\ pc' # pc
     /\ command.kind = "Describe"
     /\ command.index # None
     /\ command.index[1] < Len(Live))
        => /\ Described(tissue_box, tissue_box', command.index[1], command.description)
           /\ result' = CliOk
           /\ pc' = "cli_save"
C21_DescribeAppends == [][C21_CaptureStep /\ C21_CaptureApply /\ C21_CommandStep]_vars

\* Enter was pressed in the Describe capture on the first of two tissues,
\* which had one description: it has a second one, and the second tissue is
\* as it was loaded.
C21_Witness ==
    /\ pc = "apply"
    /\ event = [key |-> "Enter", mode |-> TextMode("Describe", <<"x">>)]
    /\ result = ResChanged
    /\ Live = <<[Foo EXCEPT !.description = <<<<"x">>, <<"x">>>>], Bar>>

\* C24: a one-shot Remove whose tissue index is not below the number of
\* tissues, whose description index is not below the number of the tissue's
\* descriptions, or whose tag the tissue does not have, returns
\* TissueNotFound, DescriptionNotFound or TagNotFound, leaves the box as it
\* is, and the process reports the error and exits without a save.
C24_Missing ==
    IF command.index >= Len(Live) THEN "TissueNotFound"
    ELSE IF /\ command.which.kind = "Description"
            /\ command.which.index >= Len(At(Live, command.index).description)
    THEN "DescriptionNotFound"
    ELSE IF /\ command.which.kind = "Tag"
            /\ command.which.tag \notin At(Live, command.index).tags
    THEN "TagNotFound"
    ELSE "Ok"
C24_RemoveStep ==
    (/\ pc = "cli" /\ pc' # pc
     /\ command.kind = "Remove"
     /\ C24_Missing # "Ok")
        => /\ result' = CliErr(C24_Missing)
           /\ tissue_box' = tissue_box
           /\ disk' = disk
           /\ io' = "none"
           /\ pc' = "exited"
           /\ exit' = "error"
           /\ diagnostic'.what = "error"
C24_Exited == pc = "exited" => (pc' = "exited" /\ disk' = disk)
C24_RemoveErrors == [][C24_RemoveStep /\ C24_Exited]_vars

\* Remove of description 2 of the second tissue, which has descriptions 0
\* and 1: DescriptionNotFound, both tissues intact, the process has exited
\* with the file as it was.
C24_Witness ==
    /\ pc = "exited"
    /\ command = CmdRemove(1, WhichDescription(2))
    /\ result = CliErr("DescriptionNotFound")
    /\ Live = <<Foo, Bar>>
    /\ disk = tissue_box
    /\ exit = "error"

\* C25: on a box that holds a tissue, the one-shot Describe and Tag given
\* without an index change the last tissue only: Describe appends the text at
\* the tail of its descriptions, Tag adds the tag to its tags.
C25_LastStep ==
    (/\ pc = "cli" /\ pc' # pc
     /\ command.kind \in {"Describe", "Tag"}
     /\ command.index = None
     /\ Len(Live) > 0)
        => /\ IF command.kind = "Describe"
              THEN Described(tissue_box, tissue_box', Len(Live) - 1, command.description)
              ELSE Tagged(tissue_box, tissue_box', Len(Live) - 1, command.tag)
           /\ result' = CliOk
           /\ pc' = "cli_save"
C25_DefaultsToLast == [][C25_LastStep]_vars

\* Tag without an index ran on two tissues: the second has the tag, the
\* first is as it was.
C25_Witness ==
    /\ pc = "cli_save"
    /\ command = CmdTag(<<"b">>, None)
    /\ Live = <<Foo, [Bar EXCEPT !.tags = {<<"b">>}]>>

\* C27: the exclude list gains the store's path exactly on the step that
\* answers the first-run prompt (store file absent, .git present) with y or
\* Y and completes; after n or N, with the store file present, or without
\* .git, the list is as it was; the prompt is met only before the main loop.
C27_Yes == {"y", "Y"}
C27_AppendStep ==
    /\ files'.exclude # files.exclude
        => /\ pc = "git_prompt"
           /\ ~files.store /\ files.git
           /\ event'.key \in C27_Yes
           /\ files'.exclude = files.exclude + 1
    /\ (pc = "git_prompt" /\ pc' = "render" /\ event'.key \in C27_Yes)
        => files'.exclude = files.exclude + 1
    /\ pc' = "git_prompt" => pc \in {"open", "git_prompt"}
C27_ExcludeIffYes == [][C27_AppendStep]_vars

\* C28: a process started with the marker as its first argument claims the
\* clipboard and ends there: it never reaches Cli::parse, the store or the
\* session.
C28_MarkerShortCircuits ==
    command.kind = "Daemonize" => pc \in {"args", "serving", "exited"}

\* A key other than Esc handled by input() in a mode of the given kinds.
ModeKey(kinds) ==
    /\ pc = "read" /\ pc' = "apply"
    /\ mode.kind \in kinds
    /\ event'.key # "Esc"
Commits(kinds) ==
    /\ pc = "apply" /\ pc' # pc
    /\ event.mode.kind \in kinds
Saved == pc' = "render" /\ mode' = Normal /\ disk' = tissue_box /\ tissue_box' = tissue_box

\* C31: in RemoveDescription(i) and Restore(i) an up key gives i - 1 (0 at
\* 0), a down key i + 1 (i at the last index of the walked sequence), both
\* with the store as it is; Enter removes exactly the description i of the
\* highlighted item, or restores the recycle-bin entry i, returns Changed and
\* the loop saves and goes to Normal; any other key keeps i and the store.
Walks == {"RemoveDescription", "Restore"}
Walked ==
    IF mode.kind = "Restore" THEN Bin ELSE At(Live, index).description
C31_DescriptionRemoved ==
    /\ OnlyTissue(tissue_box, tissue_box', index)
    /\ At(Live', index).tags = At(Live, index).tags
    /\ LET before == At(Live, index).description
           after == At(Live', index).description IN
       /\ mode.i < Len(before)
       /\ Len(after) = Len(before) - 1
       /\ \A j \in 1..Len(after) :
            after[j] = IF j <= mode.i THEN before[j] ELSE before[j + 1]
C31_WalkStep ==
    ModeKey(Walks) =>
        IF event'.key \in UpKeys
        THEN /\ result' = ResMode(WalkMode(mode.kind, IF mode.i = 0 THEN 0 ELSE mode.i - 1))
             /\ Untouched
        ELSE IF event'.key \in DownKeys
        THEN /\ result' = ResMode(WalkMode(mode.kind,
                                IF mode.i < Len(Walked) - 1 THEN mode.i + 1 ELSE mode.i))
             /\ Untouched
        ELSE IF event'.key = "Enter"
        THEN /\ result' = ResChanged
             /\ index' = index
             /\ IF mode.kind = "Restore" THEN C10_RestoreEffect ELSE C31_DescriptionRemoved
        ELSE result' = ResMode(mode) /\ Untouched
C31_WalkApply ==
    (Commits(Walks) /\ event.key = "Enter") => (Saved /\ index' = index)
C31_Selectors == [][C31_WalkStep /\ C31_WalkApply]_vars

\* Enter was pressed in RemoveDescription(1) on the item with two
\* descriptions: the first one is left.
C31_Witness ==
    /\ pc = "apply"
    /\ event = [key |-> "Enter", mode |-> WalkMode("RemoveDescription", 1)]
    /\ result = ResChanged
    /\ At(Live, index) = [Bar EXCEPT !.description = <<<<"1">>>>]

\* C32: in Normal an up key gives index - 1 (0 at 0) and a down key
\* index + 1, which the next render brings back to the last live index; in
\* every other mode an up or down key leaves the highlighted index as it is,
\* and so does applying a result.
C32_KeyStep ==
    (/\ pc = "read" /\ pc' = "apply"
     /\ event'.key \in UpKeys \cup DownKeys)
        => IF mode # Normal THEN index' = index
           ELSE IF event'.key \in UpKeys
           THEN index' = (IF index = 0 THEN 0 ELSE index - 1) /\ result' = ResMode(Normal)
           ELSE index' = index + 1 /\ result' = ResMode(Normal)
C32_RenderStep ==
    (pc = "render" /\ pc' = "read")
        => index' = (IF Len(Live) = 0 THEN 0
                     ELSE IF index < Len(Live) THEN index ELSE Len(Live) - 1)
C32_ApplyStep == pc = "apply" => index' = index
C32_DirectionKeys == [][C32_KeyStep /\ C32_RenderStep /\ C32_ApplyStep]_vars

\* j was pressed in Normal on the last of three items: the index is one past
\* the end until the next render.
C32_Witness ==
    /\ pc = "apply"
    /\ event = [key |-> "j", mode |-> Normal]
    /\ index = 3
    /\ Len(Live) = 3

\* C33: in Remove, T removes the highlighted item, returns Changed and the
\* loop saves and goes to Normal; d gives RemoveDescription(0) when the item
\* has a description and Normal when it has none; t gives RemoveTag with an
\* empty buffer; any other key gives Remove again; all but T leave the store
\* and the highlighted index as they are.
C33_MenuStep ==
    ModeKey({"Remove"}) =>
        IF event'.key = "T" THEN C9_RemovalEffect /\ index' = index
        ELSE /\ Untouched
             /\ result' = ResMode(
                    IF event'.key = "d"
                    THEN IF Len(At(Live, index).description) >= 1
                         THEN WalkMode("RemoveDescription", 0)
                         ELSE Normal
                    ELSE IF event'.key = "t" THEN TextMode("RemoveTag", <<>>)
                    ELSE Mode("Remove"))
C33_MenuApply == (Commits({"Remove"}) /\ event.key = "T") => Saved
C33_RemoveMenu == [][C33_MenuStep /\ C33_MenuApply]_vars

\* d was pressed in Remove on the item without descriptions: the result is
\* Normal and all three items are live.
C33_Witness ==
    /\ pc = "apply"
    /\ event = [key |-> "d", mode |-> Mode("Remove")]
    /\ result = ResMode(Normal)
    /\ At(Live, index).description = <<>>
    /\ Len(Live) = 3

\* C34: whenever the session waits for a key, Esc is accepted and, in
\* Normal, so is q; Esc gives Normal whatever the mode, the buffer, the store
\* and the error on display; the session then stays in Normal until a key is
\* pressed, and q pressed in Normal ends it with Ok(()).
C34_KeysAccepted ==
    pc = "read" =>
        /\ ENABLED KeyPress(Keyboard, "Esc", TRUE)
        /\ mode = Normal => ENABLED KeyPress(Keyboard, "q", TRUE)
C34_EscStep ==
    (pc = "read" /\ event' # event /\ event'.key = "Esc")
        => /\ pc' = "apply"
           /\ mode' = Normal
           /\ result' = ResMode(Normal)
C34_EscApply ==
    (pc = "apply" /\ event.key = "Esc" /\ pc' # pc)
        => (pc' = "render" /\ mode' = Normal)
C34_StaysNormal ==
    (mode = Normal /\ pc \in {"render", "read"} /\ event' = event)
        => (mode' = Normal /\ pc' \in {"render", "read", "done"})
C34_QuitStep ==
    (pc = "read" /\ mode = Normal /\ event' # event /\ event'.key = "q")
        => (pc' = "done" /\ exit' = "quit")
C34_EscThenQuit ==
    /\ []C34_KeysAccepted
    /\ [][C34_EscStep /\ C34_EscApply /\ C34_StaysNormal /\ C34_QuitStep]_vars

\* Esc was pressed in the Describe capture with a typed buffer and an error
\* on display: the result is Normal.
C34_Witness ==
    /\ pc = "apply"
    /\ event = [key |-> "Esc", mode |-> TextMode("Describe", <<"a">>)]
    /\ result = ResMode(Normal)
    /\ mode = Normal
    /\ shown_error # "Ok"

\* C35: cli::run returns Ok or Err for every command on every box; Describe
\* and Tag without an index on a box without tissues return TissueNotFound
\* and leave the box as it is.
C35_RunStep ==
    (pc = "cli" /\ pc' # pc)
        => /\ result'.kind \in {"Ok", "Err"}
           /\ (/\ command.kind \in {"Describe", "Tag"}
               /\ command.index = None
               /\ Len(Live) = 0)
                => (result' = CliErr("TissueNotFound") /\ tissue_box' = tissue_box)
C35_RunReturns == [][C35_RunStep]_vars

====
